---- MODULE Spec2Model ----
(***************************************************************************)
(* Dashboard-V7-Frontend: the tabular normalisation and derived-metric     *)
(* engine (value coercion, percent normalisation, cell formatting, column  *)
(* resolution, the chart projections, the tables with their column widths  *)
(* and the memoisation across renders), modelled from the TypeScript       *)
(* sources.                                                                *)
(*                                                                         *)
(* JavaScript values are records [t, s, n]:                                *)
(*   t = "null" | "undef" | "str" | "num" | "nan" | "inf"                  *)
(*   s = the characters of a string value (a sequence of 1-char strings)   *)
(*   n = a finite number in thousandths (fixed point), or the sign of an   *)
(*       infinity.                                                         *)
(* Decimal fixed point stands for the IEEE doubles of the source: every    *)
(* number the model draws has at most three fraction digits, so sums,      *)
(* comparisons, Math.round and the multiplication by 100 are exact.        *)
(***************************************************************************)
EXTENDS Integers, Sequences, FiniteSets, TLC

VARIABLES
  cellValue,      \* the raw cell value handed to a formatting helper
  cellStage,      \* which helper produced cellOut ("raw" before any ran)
  cellOut,        \* the helper's result
  cellFirst,      \* the result of the first pass when a normalizer ran twice
  keys,           \* pickKey: the key array of the first row
  candidates,     \* pickKey: the candidate list
  picked,         \* pickKey: its result
  moduleRows,     \* EchoComboChart prop: the module rows
  studentsTotal,  \* EchoComboChart prop: the total-students hint
  variant,        \* which chart component (source variant) rendered
  data,           \* the chart points of the last render
  series,         \* the series and notes the last chart render mounted
  resolved,       \* the column keys the last chart render resolved
  cellKey,        \* formatCell: the column name of the cell
  cellPercentCols,\* formatCell: the percent-column list
  rows,           \* Table / GradebookComboChart prop: the rows
  columns,        \* Table prop: the requested columns, or Undefined
  percentCols,    \* Table prop: the percent-column list
  maxRows,        \* Table prop: the display row limit
  tableVariant,   \* which Table source variant rendered
  cols,           \* Table: the displayed columns
  slice,          \* Table: the displayed rows
  colWidths,      \* Table (part_003): the column-width state
  tableView,      \* Table: what the last render shows
  rowsId,         \* the identity of the rows array (a new array, a new id)
  effectPending,  \* Table (part_003): the colWidths effect is still to run
  moduleRowsId,   \* the identity of the moduleRows array
  opts,           \* buildColWidths: its options
  built,          \* buildColWidths: whether it has returned
  axis,           \* the count-axis domain of the last chart render
  echoSummary,    \* page: result.echo.summary
  echoStudents,   \* page: result.echo.students
  pageStage,      \* page: whether studentsTotal has been computed
  component,      \* wizard: which page component (source variant) runs
  step,           \* wizard: the step shown
  loading,        \* wizard: the loading flag
  error,          \* wizard: the error message state (analysisError in part_002)
  result,         \* wizard: the stored response (the tables in part_002)
  apiBase,        \* wizard: the API base URL is a non-empty string
  courseCode,     \* wizard: the course identifier typed (courseId)
  canvasCsv,      \* wizard: a gradebook file is selected
  echoCsv,        \* wizard: an Echo file is selected
  activeTab,      \* wizard: the tab of step 3
  request,        \* wizard: where each analysis request sent stands
  calls           \* wizard: how often the run-analysis handler was invoked

cellVars == <<cellValue, cellStage, cellOut, cellFirst, cellKey, cellPercentCols>>
keyVars == <<keys, candidates, picked>>
echoVars == <<moduleRows, moduleRowsId, studentsTotal, variant, data, series,
              resolved, axis>>
tableVars == <<rows, columns, percentCols, maxRows, tableVariant, cols, slice,
               colWidths, tableView, rowsId, effectPending>>
widthVars == <<opts, built>>
pageVars == <<echoSummary, echoStudents, pageStage>>
wizVars == <<component, step, loading, error, result, apiBase, courseCode,
             canvasCsv, echoCsv, activeTab, request, calls>>
vars == <<cellVars, keyVars, echoVars, tableVars, widthVars, pageVars,
          wizVars>>

---------------------------------------------------------------------------
(* Bounds *)

\* longest raw string enumerated over Alphabet
MaxStrLen == 3
\* longest candidate list handed to pickKey
MaxCandidates == 3
\* most module rows in one response
MaxRows == 2
\* invocations of the run-analysis handler in one behaviour
MaxCalls == 2

---------------------------------------------------------------------------
(* JavaScript values *)

\* thousandths: the fixed-point resolution of every number
Scale == 10 * 10 * 10

Null == [t |-> "null", s |-> <<>>, n |-> 0]
Undefined == [t |-> "undef", s |-> <<>>, n |-> 0]
NaN == [t |-> "nan", s |-> <<>>, n |-> 0]
PosInfinity == [t |-> "inf", s |-> <<>>, n |-> 1]
NegInfinity == [t |-> "inf", s |-> <<>>, n |-> -1]
Num(k) == [t |-> "num", s |-> <<>>, n |-> k]
Str(chars) == [t |-> "str", s |-> chars, n |-> 0]

\* whole number i as a fixed-point number value
Whole(i) == Num(i * Scale)

Digits == {"0", "1", "2", "3", "4", "5", "6", "7", "8", "9"}

DigitVal(c) ==
  CASE c = "0" -> 0 [] c = "1" -> 1 [] c = "2" -> 2 [] c = "3" -> 3
    [] c = "4" -> 4 [] c = "5" -> 5 [] c = "6" -> 6 [] c = "7" -> 7
    [] c = "8" -> 8 [] c = "9" -> 9

RECURSIVE Pow10(_)
Pow10(k) == IF k = 0 THEN 1 ELSE 10 * Pow10(k - 1)

RECURSIVE DigitsValue(_)
DigitsValue(ds) ==
  IF ds = <<>> THEN 0
  ELSE 10 * DigitsValue(SubSeq(ds, 1, Len(ds) - 1)) + DigitVal(ds[Len(ds)])

\* String.prototype.trim (the only white space drawn is the blank)
RECURSIVE TrimStart(_)
TrimStart(s) == IF s # <<>> /\ Head(s) = " " THEN TrimStart(Tail(s)) ELSE s

RECURSIVE TrimEnd(_)
TrimEnd(s) ==
  IF s # <<>> /\ s[Len(s)] = " " THEN TrimEnd(SubSeq(s, 1, Len(s) - 1)) ELSE s

Trim(s) == TrimEnd(TrimStart(s))

\* s.replace(/c/g, "")
RemoveAll(s, c) == SelectSeq(s, LAMBDA x : x # c)

\* String(v) for the values that reach it: a string, or a value toNumber did
\* not return early on (finite numbers never reach it)
JsString(v) ==
  CASE v.t = "str" -> v.s
    [] v.t = "nan" -> <<"N", "a", "N">>
    [] v.t = "inf" /\ v.n > 0 -> <<"I", "n", "f", "i", "n", "i", "t", "y">>
    [] v.t = "inf" /\ v.n < 0 -> <<"-", "I", "n", "f", "i", "n", "i", "t", "y">>
    [] v.t = "null" -> <<"n", "u", "l", "l">>
    [] v.t = "undef" -> <<"u", "n", "d", "e", "f", "i", "n", "e", "d">>

\* the digits-and-dot body of a StrDecimalLiteral: at least one digit, at
\* most one dot, nothing else
IsDecimalBody(b) ==
  /\ \A i \in 1..Len(b) : b[i] \in Digits \cup {"."}
  /\ \E i \in 1..Len(b) : b[i] \in Digits
  /\ Cardinality({i \in 1..Len(b) : b[i] = "."}) <= 1

DecimalBodyValue(b) ==
  LET dots == {i \in 1..Len(b) : b[i] = "."}
      dot == IF dots = {} THEN Len(b) + 1 ELSE CHOOSE i \in dots : TRUE
      whole == SubSeq(b, 1, dot - 1)
      frac == SubSeq(b, dot + 1, Len(b))
  IN DigitsValue(whole) * Scale
       + (DigitsValue(frac) * Scale) \div Pow10(Len(frac))

\* Number(s): ECMAScript StringToNumber over signs, digits, a dot and the
\* word Infinity; white space is trimmed, the empty string is 0, anything
\* else is NaN
JsNumber(s) ==
  LET t == Trim(s)
      signed == t # <<>> /\ Head(t) \in {"-", "+"}
      sign == IF t # <<>> /\ Head(t) = "-" THEN -1 ELSE 1
      body == IF signed THEN Tail(t) ELSE t
  IN IF t = <<>> THEN Num(0)
     ELSE IF body = <<"I", "n", "f", "i", "n", "i", "t", "y">>
       THEN [t |-> "inf", s |-> <<>>, n |-> sign]
     ELSE IF IsDecimalBody(body) THEN Num(sign * DecimalBodyValue(body))
     ELSE NaN

\* typeof v === "number"
TypeofNumber(v) == v.t \in {"num", "nan", "inf"}

\* Number.isFinite
IsFinite(v) == v.t = "num"

ToNumberNoFiniteCheck(v) ==
  IF v = Null \/ v = Undefined \/ v = Str(<<>>) THEN Null
  ELSE IF TypeofNumber(v) THEN v
  ELSE LET s == Trim(JsString(v))
       IN IF s = <<>> THEN Null
          ELSE JsNumber(RemoveAll(RemoveAll(s, "%"), ","))

ToNumberNoStrip(v) ==
  IF v = Null \/ v = Undefined \/ v = Str(<<>>) THEN Null
  ELSE IF TypeofNumber(v) /\ IsFinite(v) THEN v
  ELSE LET s == Trim(JsString(v))
       IN IF s = <<>> THEN Null
          ELSE LET n == JsNumber(s)
               IN IF IsFinite(n) THEN n ELSE Null

\* toNumber: identical in page.tsx, part_003, both EchoComboChart variants,
\* part_001, GradebookComboChart and ChartCard
toNumber(v) ==
  IF v = Null \/ v = Undefined \/ v = Str(<<>>) THEN Null
  ELSE IF TypeofNumber(v) /\ IsFinite(v) THEN v
  ELSE LET s == Trim(JsString(v))
       IN IF s = <<>> THEN Null
          ELSE LET cleaned == RemoveAll(RemoveAll(s, "%"), ",")
                   n == JsNumber(cleaned)
               IN IF IsFinite(n) THEN n ELSE Null

---------------------------------------------------------------------------
(* Percent normalizers *)

PagePctThreshold15(v) ==
  LET n == toNumber(v)
  IN IF n = Null THEN Null
     ELSE IF n.n <= (3 * Scale) \div 2 THEN Num(n.n * 100) ELSE n

PagePctAlwaysTimes100(v) ==
  LET n == toNumber(v) IN IF n = Null THEN Null ELSE Num(n.n * 100)

\* page.tsx formatPercentCell: the pct it renders (null where it renders "")
pagePct(v) ==
  LET n == toNumber(v)
  IN IF n = Null THEN Null
     ELSE IF n.n <= 1 * Scale THEN Num(n.n * 100) ELSE n

TablePctThreshold15(v) ==
  LET n == toNumber(v)
  IN IF n = Null THEN Null
     ELSE IF 2 * n.n <= 3 * Scale THEN Num(n.n * 100) ELSE n

\* part_003 formatPercentCell: the pct it renders
tablePct(v) ==
  LET n == toNumber(v) IN IF n = Null THEN Null ELSE Num(n.n * 100)

\* toPct0to100 of EchoComboChart.tsx and GradebookComboChart.tsx
toPct0to100(v) ==
  LET n == toNumber(v) IN IF n = Null THEN Null ELSE Num(n.n * 100)

Range(seq) == {seq[i] : i \in 1..Len(seq)}

\* keys.includes(c)
Includes(ks, c) == c \in Range(ks)

---------------------------------------------------------------------------
(* Helpers *)

Max(a, b) == IF a >= b THEN a ELSE b
Min(a, b) == IF a <= b THEN a ELSE b

\* Math.round on a fixed-point number: floor(x + 0.5)
Round(k) == ((k + Scale \div 2) \div Scale) * Scale

\* a ?? b
Coalesce(a, b) == IF a = Null \/ a = Undefined THEN b ELSE a

\* r[k]: undefined when the row has no such key
Get(r, k) == IF k \in DOMAIN r THEN r[k] ELSE Undefined

RECURSIVE SetToSeq(_)
SetToSeq(S) ==
  IF S = {} THEN <<>>
  ELSE LET x == CHOOSE y \in S : TRUE IN <<x>> \o SetToSeq(S \ {x})

\* Object.keys(r)
ObjectKeys(r) == SetToSeq(DOMAIN r)

---------------------------------------------------------------------------
(* Cell text: what formatCell renders *)

DigitChars == <<"0", "1", "2", "3", "4", "5", "6", "7", "8", "9">>

\* the decimal digits of a natural number
RECURSIVE IntDigits(_)
IntDigits(i) ==
  IF i < 10 THEN <<DigitChars[i + 1]>>
  ELSE IntDigits(i \div 10) \o <<DigitChars[(i % 10) + 1]>>

ToFixed1DropZero(k) ==
  LET m == IF k < 0 THEN -k ELSE k
      tenths == (m + 50) \div 100
  IN (IF k < 0 THEN <<"-">> ELSE <<>>)
       \o IntDigits(tenths \div 10)
       \o (IF tenths % 10 = 0 THEN <<>>
           ELSE <<".", DigitChars[(tenths % 10) + 1]>>)

\* Number.prototype.toFixed(1) of the number k thousandths: the magnitude is
\* rounded to tenths, a tie going up, and a negative number keeps its sign
ToFixed1(k) ==
  LET m == IF k < 0 THEN -k ELSE k
      tenths == (m + 50) \div 100
  IN (IF k < 0 THEN <<"-">> ELSE <<>>)
       \o IntDigits(tenths \div 10) \o <<".">> \o <<DigitChars[(tenths % 10) + 1]>>

\* digits in groups of three, separated by commas
RECURSIVE Grouped(_)
Grouped(ds) ==
  IF Len(ds) <= 3 THEN ds
  ELSE Grouped(SubSeq(ds, 1, Len(ds) - 3)) \o <<",">>
         \o SubSeq(ds, Len(ds) - 2, Len(ds))

\* n.toLocaleString(undefined, { maximumFractionDigits: 2 }) of the number k
\* thousandths, in the en-US locale: grouped whole part, at most two
\* fraction digits, trailing zeros dropped
ToLocaleString(k) ==
  LET m == IF k < 0 THEN -k ELSE k
      hundredths == (m + 5) \div 10
      frac == hundredths % 100
  IN (IF k < 0 THEN <<"-">> ELSE <<>>)
       \o Grouped(IntDigits(hundredths \div 100))
       \o (IF frac = 0 THEN <<>>
           ELSE IF frac % 10 = 0 THEN <<".", DigitChars[(frac \div 10) + 1]>>
           ELSE <<".", DigitChars[(frac \div 10) + 1],
                  DigitChars[(frac % 10) + 1]>>)

\* `${pct.toFixed(1)}%`, or "" when the normalizer gave null
PercentText(pct) == IF pct = Null THEN <<>> ELSE ToFixed1(pct.n) \o <<"%">>

\* formatNumberCell of page.tsx (coerces again) and of part_003 (tests
\* Number.isFinite): "" for a value that is not a finite number
formatNumberCell(v) ==
  LET n == toNumber(v) IN IF n = Null THEN <<>> ELSE ToLocaleString(n.n)

\* String(value).match(/^[\d,\.\-]+%?$/)
NumericLooking(s) ==
  LET body == IF s # <<>> /\ s[Len(s)] = "%"
              THEN SubSeq(s, 1, Len(s) - 1) ELSE s
  IN /\ body # <<>>
     /\ \A i \in 1..Len(body) : body[i] \in Digits \cup {",", ".", "-"}

\* the column names cells are formatted under
FormatKeys == {"Module", "Avg % Turned In"}

\* key.includes("%"), over FormatKeys
KeyHasPercentSign(key) == key \in {"Avg % Turned In", "Average View %"}

PageFormatCellTrimmed(key, value, pcols) ==
  IF value = Null \/ value = Undefined THEN <<>>
  ELSE IF Includes(pcols, key) THEN PercentText(pagePct(value))
  ELSE IF TypeofNumber(value) THEN formatNumberCell(value)
  ELSE LET n == toNumber(value)
       IN IF n # Null /\ NumericLooking(JsString(value))
          THEN formatNumberCell(n)
          ELSE Trim(JsString(value))

\* formatCell of page.tsx; percentCols undefined takes the branches of []
pageFormatCell(key, value, pcols) ==
  IF value = Null \/ value = Undefined THEN <<>>
  ELSE IF Includes(pcols, key) THEN PercentText(pagePct(value))
  ELSE IF TypeofNumber(value) THEN formatNumberCell(value)
  ELSE LET n == toNumber(value)
       IN IF n # Null /\ NumericLooking(JsString(value))
          THEN formatNumberCell(n)
          ELSE JsString(value)

\* formatCell of part_003
tableFormatCell(key, value, pcols) ==
  IF value = Null \/ value = Undefined THEN <<>>
  ELSE IF Includes(pcols, key) THEN PercentText(tablePct(value))
  ELSE LET n == toNumber(value)
       IN IF KeyHasPercentSign(key) /\ n # Null /\ n.n >= 0
               /\ 2 * n.n <= 3 * Scale
          THEN PercentText(tablePct(n))
          ELSE IF TypeofNumber(value) THEN formatNumberCell(value)
          ELSE IF n # Null /\ NumericLooking(JsString(value))
          THEN formatNumberCell(n)
          ELSE JsString(value)

---------------------------------------------------------------------------
(* Table: displayed columns, displayed rows, column widths *)

\* the columns prop: omitted, or a list of names
NoColumns == [given |-> FALSE, list |-> <<>>]
Columns(list) == [given |-> TRUE, list |-> list]

\* Record<string, number> with no key
EmptyMap == [c \in {} |-> 0]

\* a YAxis domain: ["auto", "auto"] (or no domain prop), or [0, top]
AutoAxis == [auto |-> TRUE, top |-> 0]
FixedAxis(top) == [auto |-> FALSE, top |-> top]

\* the error state: null, or a message (shown when it is not empty)
NoError == [set |-> FALSE, text |-> ""]
Message(text) == [set |-> TRUE, text |-> text]

\* what a Table render shows: the "No data." message, or a header row of
\* column names over a body of cell texts
NoView == [mounted |-> FALSE, noData |-> FALSE, header |-> <<>>, body |-> <<>>]
NoDataView ==
  [mounted |-> TRUE, noData |-> TRUE, header |-> <<>>, body |-> <<>>]
GridView(header, body) ==
  [mounted |-> TRUE, noData |-> FALSE, header |-> header, body |-> body]

\* columns.filter((c) => available.has(c))
Present(list, r) == SelectSeq(list, LAMBDA c : c \in DOMAIN r)

PageColsKeepAbsent(rs, cs) ==
  IF Len(rs) = 0 THEN <<>>
  ELSE IF cs.given /\ Len(cs.list) > 0 THEN cs.list
  ELSE ObjectKeys(rs[1])

\* cols of the page.tsx Table
pageCols(rs, cs) ==
  IF Len(rs) = 0 THEN <<>>
  ELSE IF cs.given /\ Len(cs.list) > 0 THEN Present(cs.list, rs[1])
  ELSE ObjectKeys(rs[1])

\* cols of the part_003 Table
tableCols(rs, cs) ==
  IF Len(rs) = 0 THEN <<>>
  ELSE LET ks == ObjectKeys(rs[1])
       IN IF ~cs.given \/ Len(cs.list) = 0 THEN ks
          ELSE LET picked0 == Present(cs.list, rs[1])
               IN IF Len(picked0) <= 1 /\ Len(ks) > 1 THEN ks ELSE picked0

\* rows.slice(0, maxRows), maxRows >= 0
Slice(rs, limit) == SubSeq(rs, 1, Min(limit, Len(rs)))

\* isTextHeavyCol and isNumericishCol, over the column names of the model
isTextHeavyCol(c) == c \in {"Media Title", "Avg Page Views"}
isNumericishCol(c) ==
  c \in {"Average View %", "Avg % Turned In", "Total Views", "Avg Page Views"}

\* the number of characters of a column name
NameLength(c) ==
  CASE c = "Module" -> 6
    [] c = "# of Students" -> 13
    [] c = "# of Students Viewing" -> 21
    [] c = "Average View %" -> 14
    [] c = "Avg % Turned In" -> 15
    [] c = "Media Title" -> 11
    [] c = "Total Views" -> 11
    [] c = "Avg Page Views" -> 14
    [] c = "Week" -> 4
    [] c = "Score" -> 5
    [] c = "Module|Week" -> 11

\* pixels per character: ctx.measureText(text).width is taken as
\* proportional to the length of the text
GlyphPx == 7

MaxOf(S) == CHOOSE x \in S : \A y \in S : y <= x

\* the widest of the header and the formatted cells of the sampled rows
Widest(rs, c, pcols, sample) ==
  LET take == Slice(rs, sample)
  IN MaxOf({NameLength(c) * GlyphPx}
           \cup {Len(tableFormatCell(c, Get(take[i], c), pcols)) * GlyphPx :
                   i \in 1..Len(take)})

\* the width buildColWidths gives column c from its widest measured text
Width(widest, c, o) ==
  LET padded == widest + o.paddingPx
      cap == IF isTextHeavyCol(c) THEN o.maxTextPx ELSE o.maxDefaultPx
      clamped == Max(o.minPx, Min(padded, cap))
  IN IF isNumericishCol(c) /\ ~isTextHeavyCol(c)
     THEN Min(clamped, 180) ELSE clamped

\* buildColWidths of part_003; ctx is whether a 2d canvas context exists
buildColWidths(rs, cs, pcols, o, ctx) ==
  IF ~ctx THEN EmptyMap
  ELSE [c \in Range(cs) |->
          Width(Widest(rs, c, pcols, o.sample), c, o)]

\* the options the part_003 Table passes
TableOpts(rs) ==
  [sample |-> Min(120, Len(rs)), paddingPx |-> 20, minPx |-> 70,
   maxTextPx |-> 520, maxDefaultPx |-> 320]

\* the body of a table: formatCell of every displayed cell
PageBody(sl, cs, pcols) ==
  [i \in 1..Len(sl) |->
     [j \in 1..Len(cs) |-> pageFormatCell(cs[j], Get(sl[i], cs[j]), pcols)]]
TableBody(sl, cs, pcols) ==
  [i \in 1..Len(sl) |->
     [j \in 1..Len(cs) |-> tableFormatCell(cs[j], Get(sl[i], cs[j]), pcols)]]

---------------------------------------------------------------------------
(* Cell formatting: the raw values a cell can hold and the helpers applied *)

\* the characters raw strings are enumerated over
Alphabet == {"0", "1", "2", "5", ".", "-", "%", ",", " ", "a"}

Strings(len) == UNION {[1..k -> Alphabet] : k \in 0..len}

NamedStrings ==
  { <<"1", "2", ".", "5", "%">>, <<"1", ",", "2", "3", "4">>,
    <<"a", "b", "c">>, <<"0", ".", "4", "2">>, <<" ", "4", "2", "%", " ">>,
    <<"I", "n", "f", "i", "n", "i", "t", "y">>,
    <<"-", "I", "n", "f", "i", "n", "i", "t", "y">>, <<"N", "a", "N">> }

\* finite numbers, in thousandths: -0.5, 0, 0.42, 0.75, 1, 1.2, 1.5, 1.501,
\* 1.56, 2, 42, 100, 150, 1234.5
NumberInputs ==
  {Num(k) : k \in {-500, 0, 420, 750, 1000, 1200, 1500, 1501, 1560, 2000,
                   42000, 100000, 150000, 1234500}}

CellInputs ==
  {Null, Undefined, NaN, PosInfinity, NegInfinity}
    \cup NumberInputs
    \cup {Str(s) : s \in Strings(MaxStrLen) \cup NamedStrings}

PercentStages == {"pagePct", "tablePct", "chartPct"}

CoerceInit ==
  /\ cellValue \in CellInputs
  /\ cellStage = "raw"
  /\ cellOut = Null
  /\ cellFirst = Null
  /\ cellKey = ""
  /\ cellPercentCols = <<>>

\* toNumber(v) on the raw cell
CoerceCell ==
  /\ cellStage = "raw"
  /\ cellOut' = toNumber(cellValue)
  /\ cellStage' = "toNumber"
  /\ UNCHANGED <<cellValue, cellFirst, cellKey, cellPercentCols>>

\* page.tsx formatPercentCell(v)
PagePercentCell ==
  /\ cellStage = "raw"
  /\ cellOut' = pagePct(cellValue)
  /\ cellStage' = "pagePct"
  /\ UNCHANGED <<cellValue, cellFirst, cellKey, cellPercentCols>>

\* part_003 formatPercentCell(v)
TablePercentCell ==
  /\ cellStage = "raw"
  /\ cellOut' = tablePct(cellValue)
  /\ cellStage' = "tablePct"
  /\ UNCHANGED <<cellValue, cellFirst, cellKey, cellPercentCols>>

\* toPct0to100(v) of the charts
ChartPercent ==
  /\ cellStage = "raw"
  /\ cellOut' = toPct0to100(cellValue)
  /\ cellStage' = "chartPct"
  /\ UNCHANGED <<cellValue, cellFirst, cellKey, cellPercentCols>>

\* largest first-pass percent (whole units) a normalizer is applied to again
MaxRenormalize == 10000

Abs(k) == IF k < 0 THEN -k ELSE k

\* the same normalizer applied to its own result
Renormalize ==
  /\ cellStage \in PercentStages
  /\ cellOut # Null
  /\ Abs(cellOut.n) <= MaxRenormalize * Scale
  /\ cellFirst' = cellOut
  /\ cellOut' = CASE cellStage = "pagePct" -> pagePct(cellOut)
                  [] cellStage = "tablePct" -> tablePct(cellOut)
                  [] cellStage = "chartPct" -> toPct0to100(cellOut)
  /\ cellStage' = CASE cellStage = "pagePct" -> "pagePct2"
                    [] cellStage = "tablePct" -> "tablePct2"
                    [] cellStage = "chartPct" -> "chartPct2"
  /\ UNCHANGED <<cellValue, cellKey, cellPercentCols>>

\* the percent-column lists a table is given
PercentColLists == {<<>>, <<"Avg % Turned In">>}

\* formatCell(key, value, percentCols) of page.tsx on the raw cell
FormatCellPage ==
  /\ cellStage = "raw"
  /\ \E key \in FormatKeys, pcols \in PercentColLists :
       /\ cellKey' = key
       /\ cellPercentCols' = pcols
       /\ cellOut' = Str(pageFormatCell(key, cellValue, pcols))
  /\ cellStage' = "pageFormat"
  /\ UNCHANGED <<cellValue, cellFirst>>

\* formatCell(key, value, percentCols) of part_003 on the raw cell
FormatCellTable ==
  /\ cellStage = "raw"
  /\ \E key \in FormatKeys, pcols \in PercentColLists :
       /\ cellKey' = key
       /\ cellPercentCols' = pcols
       /\ cellOut' = Str(tableFormatCell(key, cellValue, pcols))
  /\ cellStage' = "tableFormat"
  /\ UNCHANGED <<cellValue, cellFirst>>

KeyIdle ==
  /\ keys = <<>>
  /\ candidates = <<>>
  /\ picked = [done |-> FALSE, found |-> FALSE, key |-> ""]

EchoIdle ==
  /\ moduleRows = <<>>
  /\ moduleRowsId = 0
  /\ studentsTotal = Null
  /\ variant = "none"
  /\ data = <<>>
  /\ series = {}
  /\ resolved = <<>>
  /\ axis = AutoAxis

CellIdle ==
  /\ cellValue = Null
  /\ cellStage = "raw"
  /\ cellOut = Null
  /\ cellFirst = Null
  /\ cellKey = ""
  /\ cellPercentCols = <<>>

TableIdle ==
  /\ rows = <<>>
  /\ columns = NoColumns
  /\ percentCols = <<>>
  /\ maxRows = 0
  /\ tableVariant = "none"
  /\ cols = <<>>
  /\ slice = <<>>
  /\ colWidths = EmptyMap
  /\ tableView = NoView
  /\ rowsId = 0
  /\ effectPending = FALSE

\* the options buildColWidths falls back on
DefaultOpts ==
  [sample |-> 80, paddingPx |-> 22, minPx |-> 70, maxTextPx |-> 520,
   maxDefaultPx |-> 320]

WidthIdle ==
  /\ opts = DefaultOpts
  /\ built = FALSE

PageIdle ==
  /\ echoSummary = <<>>
  /\ echoStudents = <<>>
  /\ pageStage = "none"

WizIdle ==
  /\ component = "none"
  /\ step = 0
  /\ loading = FALSE
  /\ error = NoError
  /\ result = "null"
  /\ apiBase = FALSE
  /\ courseCode = <<>>
  /\ canvasCsv = FALSE
  /\ echoCsv = FALSE
  /\ activeTab = ""
  /\ request = <<>>
  /\ calls = 0

CoerceNext ==
  \/ CoerceCell /\ UNCHANGED <<keyVars, echoVars, tableVars, widthVars,
                               pageVars, wizVars>>
  \/ PagePercentCell /\ UNCHANGED <<keyVars, echoVars, tableVars, widthVars,
                                    pageVars, wizVars>>
  \/ TablePercentCell /\ UNCHANGED <<keyVars, echoVars, tableVars, widthVars,
                                     pageVars, wizVars>>
  \/ ChartPercent /\ UNCHANGED <<keyVars, echoVars, tableVars, widthVars,
                                 pageVars, wizVars>>
  \/ Renormalize /\ UNCHANGED <<keyVars, echoVars, tableVars, widthVars,
                                pageVars, wizVars>>
  \/ FormatCellPage /\ UNCHANGED <<keyVars, echoVars, tableVars, widthVars,
                                   pageVars, wizVars>>
  \/ FormatCellTable /\ UNCHANGED <<keyVars, echoVars, tableVars, widthVars,
                                    pageVars, wizVars>>

InitCoerce == CoerceInit /\ KeyIdle /\ EchoIdle /\ TableIdle /\ WidthIdle /\ PageIdle /\ WizIdle

SpecCoerce == InitCoerce /\ [][CoerceNext]_vars

---------------------------------------------------------------------------
(* Column resolution *)

NoKey == [done |-> TRUE, found |-> FALSE, key |-> ""]
SomeKey(c) == [done |-> TRUE, found |-> TRUE, key |-> c]

RECURSIVE PickKeyLastMatch(_, _)
PickKeyLastMatch(ks, cs) ==
  IF cs = <<>> THEN NoKey
  ELSE IF Includes(ks, cs[Len(cs)]) THEN SomeKey(cs[Len(cs)])
  ELSE PickKeyLastMatch(ks, SubSeq(cs, 1, Len(cs) - 1))

PickKeyFirstCandidate(ks, cs) ==
  IF cs = <<>> THEN NoKey ELSE SomeKey(Head(cs))

\* pickKey: identical in EchoComboChart.tsx, part_001 and ChartCard.tsx
RECURSIVE pickKey(_, _)
pickKey(ks, cs) ==
  IF cs = <<>> THEN NoKey
  ELSE IF Includes(ks, Head(cs)) THEN SomeKey(Head(cs))
  ELSE pickKey(ks, Tail(cs))

\* column names a key array or a candidate list is drawn from
KeyNames ==
  {"Module", "# of Students Viewing", "# Students Viewing",
   "# of Unique Viewers"}

\* Object.keys of a row: the present names, each once, in any order
KeyArrays ==
  {ks \in UNION {[1..k -> KeyNames] : k \in 0..Cardinality(KeyNames)} :
     \A i, j \in 1..Len(ks) : i # j => ks[i] # ks[j]}

CandidateLists == UNION {[1..k -> KeyNames] : k \in 0..MaxCandidates}

ResolveInit ==
  /\ keys \in KeyArrays
  /\ candidates \in CandidateLists
  /\ picked = [done |-> FALSE, found |-> FALSE, key |-> ""]

\* pickKey(keys, candidates)
PickKey ==
  /\ ~picked.done
  /\ picked' = pickKey(keys, candidates)
  /\ UNCHANGED <<keys, candidates>>

ResolveNext == PickKey /\ UNCHANGED <<cellVars, echoVars, tableVars, widthVars,
                                      pageVars, wizVars>>

InitResolve == ResolveInit /\ CellIdle /\ EchoIdle /\ TableIdle /\ WidthIdle /\ PageIdle /\ WizIdle

SpecResolve == InitResolve /\ [][ResolveNext]_vars

---------------------------------------------------------------------------
(* Echo chart projections *)

\* clampInt of EchoComboChart.tsx
clampInt(k, lo, hi) == Max(lo, Min(hi, Round(k)))

\* studentsTotal && studentsTotal > 0
HintPositive(hint) == hint.t = "num" /\ hint.n # 0 /\ hint.n > 0

\* String(r[key] ?? "")
Label(r, key) == JsString(Coalesce(Get(r, key), Str(<<>>)))

\* one chart point; the pickKey variants name the fields __module,
\* __viewers, __notViewing, __avgPct and __overallPct, and total is the
\* local constant of their map callback
Point(m, v, nv, tot, avg, overall) ==
  [Module |-> m, viewed |-> v, notViewed |-> nv, total |-> tot,
   avgViewPct |-> avg, overallViewPct |-> overall]

\* EchoComboChart.tsx (first variant), the map callback of its useMemo
HintPoint(r, viewersCol, hint) ==
  LET rawViewers == Coalesce(toNumber(Get(r, viewersCol)), Num(0))
      nStudents == Coalesce(toNumber(Get(r, "# of Students")), Num(0))
      avg == toPct0to100(Get(r, "Average View %"))
      overall == toPct0to100(Get(r, "Overall View %"))
  IN IF HintPositive(hint)
     THEN LET viewed == clampInt(rawViewers.n, 0, hint.n)
          IN Point(Label(r, "Module"), Num(viewed),
                   Num(clampInt(hint.n - viewed, 0, hint.n)), hint,
                   avg, overall)
     ELSE LET total == Round(Max(rawViewers.n, nStudents.n))
              viewed == Round(rawViewers.n)
          IN Point(Label(r, "Module"), Num(viewed),
                   Num(Max(0, total - viewed)), Num(total), avg, overall)

\* EchoComboChart.tsx (first variant), data of its useMemo
HintData(rs, hint) ==
  IF Len(rs) = 0 THEN <<>>
  ELSE LET viewersCol ==
             IF \E i \in 1..Len(rs) :
                  Get(rs[i], "# of Students Viewing") # Undefined
             THEN "# of Students Viewing"
             ELSE "# of Unique Viewers"
       IN [i \in 1..Len(rs) |-> HintPoint(rs[i], viewersCol, hint)]

\* pickKey(keys, candidates) ?? fallback
KeyOr(k, fallback) == IF k.found THEN k.key ELSE fallback

\* the map callback shared by the pickKey variants: viewers, total and
\* notViewing; scale is 100 in EchoComboChart.tsx and 1 in part_001
PickKeyPoint(r, moduleKey, viewersKey, overallKey, avgKey, hint, scale) ==
  LET viewers == IF viewersKey.found THEN toNumber(Get(r, viewersKey.key))
                 ELSE Null
      total == Coalesce(toNumber(Get(r, "# of Students")),
                 Coalesce(toNumber(Get(r, "# Students")),
                   IF TypeofNumber(hint) THEN hint ELSE Null))
      notViewing == IF viewers # Null /\ total # Null
                    THEN Num(Max(0, total.n - viewers.n)) ELSE Null
      overallPct == IF overallKey.found THEN toNumber(Get(r, overallKey.key))
                    ELSE Null
      avgPct == IF avgKey.found THEN toNumber(Get(r, avgKey.key)) ELSE Null
  IN Point(Label(r, moduleKey), viewers, notViewing, total,
           IF avgPct # Null THEN Num(avgPct.n * scale) ELSE Null,
           IF overallPct # Null THEN Num(overallPct.n * scale) ELSE Null)

\* Object.keys(rows[0] ?? {})
FirstRowKeys(rs) == IF Len(rs) = 0 THEN <<>> ELSE ObjectKeys(rs[1])

ModuleCandidates == <<"Module", "module", "Module Name", "module_name">>
OverallCandidates ==
  <<"Overall View %", "% of Video Viewed Overall", "Overall % Viewed">>
AvgCandidates == <<"Average View %", "Avg View %", "Average % Viewed">>

ViewersCandidates ==
  <<"# of Students Viewing", "# Students Viewing", "Students Viewing",
    "# of Unique Viewers", "# of Unique Viewers (Module)">>
Part001ViewersCandidates ==
  <<"# of Students Viewing", "# of Students Viewing Video",
    "# Students Viewing", "Students Viewing", "# of Unique Viewers",
    "# of Unique Viewers (Module)">>

\* the keys a pickKey variant resolves against the first row
ResolveKeys(rs, viewersCandidates) ==
  LET ks == FirstRowKeys(rs)
  IN [viewersKey |-> pickKey(ks, viewersCandidates),
      overallKey |-> pickKey(ks, OverallCandidates),
      avgKey |-> pickKey(ks, AvgCandidates)]

\* EchoComboChart.tsx (pickKey variant), data of its useMemo
PickKeyData(rs, hint) ==
  LET ks == FirstRowKeys(rs)
      moduleKey == KeyOr(pickKey(ks, ModuleCandidates), "Module")
      k == ResolveKeys(rs, ViewersCandidates)
  IN [i \in 1..Len(rs) |->
        PickKeyPoint(rs[i], moduleKey, k.viewersKey, k.overallKey, k.avgKey,
                     hint, 100)]

\* part_001 EchoComboChart, data of its useMemo (the spread of the row's
\* own fields into the point is left out: no series reads them)
Part001Data(rs, hint) ==
  LET ks == FirstRowKeys(rs)
      moduleKey == KeyOr(pickKey(ks, ModuleCandidates), "Module")
      k == ResolveKeys(rs, Part001ViewersCandidates)
  IN [i \in 1..Len(rs) |->
        PickKeyPoint(rs[i], moduleKey, k.viewersKey, k.overallKey, k.avgKey,
                     hint, 1)]

\* EchoComboChart.tsx (first variant), leftMax of its useMemo: the largest
\* total (r.total || 0), 0 without rows
LeftMax(d) == MaxOf({0} \cup {d[i].total.n : i \in 1..Len(d)})

\* the count axis with a headroom of 5 whatever the totals
HintAxisFlatHeadroom(d) ==
  IF LeftMax(d) > 0 THEN FixedAxis(LeftMax(d) + 5 * Scale) ELSE AutoAxis

\* EchoComboChart.tsx (first variant): headroom, yLeftMax and the domain of
\* the left YAxis; Math.round(leftMax * 0.12) rounds to the nearest whole
\* number, a tie going up
HintAxis(d) ==
  LET leftMax == LeftMax(d)
      rounded == ((leftMax * 12 + 50 * Scale) \div (100 * Scale)) * Scale
      headroom == Max(5 * Scale, rounded)
  IN IF leftMax > 0 THEN FixedAxis(leftMax + headroom) ELSE AutoAxis

\* the series of EchoComboChart.tsx (first variant): both bars and both
\* lines unconditionally, the reference line with a positive hint
HintSeries(hint) ==
  {"bars", "avgLine", "overallLine"}
    \cup (IF HintPositive(hint) THEN {"referenceLine"} ELSE {})

\* the series of the pickKey variants, gated by hasStack, hasOverall and
\* hasAvg; the note replaces the bars
PickKeySeries(d) ==
  LET hasStack == \E i \in 1..Len(d) :
                    d[i].viewed # Null /\ d[i].notViewed # Null
      hasOverall == \E i \in 1..Len(d) : d[i].overallViewPct # Null
      hasAvg == \E i \in 1..Len(d) : d[i].avgViewPct # Null
  IN (IF hasStack THEN {"bars"} ELSE {"note"})
       \cup (IF hasOverall THEN {"overallLine"} ELSE {})
       \cup (IF hasAvg THEN {"avgLine"} ELSE {})

\* one gradebook chart point; ChartCard.tsx names the fields __x, __a, __b
GradePoint(m, a, b) == [Module |-> m, turnedIn |-> a, excl0 |-> b]

\* GradebookComboChart.tsx, data of its useMemo
GradebookData(rs) ==
  IF Len(rs) = 0 THEN <<>>
  ELSE [i \in 1..Len(rs) |->
          GradePoint(Label(rs[i], "Module"),
                     toPct0to100(Get(rs[i], "Avg % Turned In")),
                     toPct0to100(Get(rs[i], "Avg Average Excluding Zeros")))]

\* the keys ChartCard.tsx GradebookComboChart resolves
ResolveGradeKeys(rs) ==
  LET ks == FirstRowKeys(rs)
  IN [lineAKey |-> pickKey(ks, <<"Avg % Turned In", "Avg Turned In %",
                                 "% Turned In">>),
      lineBKey |-> pickKey(ks, <<"Avg Average Excluding Zeros",
                                 "Avg Excluding Zeros",
                                 "Average Excluding Zeros">>)]

ChartCardDataReversed(rs) ==
  LET ks == FirstRowKeys(rs)
      xKey == KeyOr(pickKey(ks, ModuleCandidates), "Module")
      k == ResolveGradeKeys(rs)
  IN [i \in 1..Len(rs) |->
        LET r == rs[Len(rs) + 1 - i]
        IN GradePoint(Label(r, xKey),
             IF k.lineAKey.found THEN toNumber(Get(r, k.lineAKey.key))
             ELSE Null,
             IF k.lineBKey.found THEN toNumber(Get(r, k.lineBKey.key))
             ELSE Null)]

\* ChartCard.tsx GradebookComboChart, data of its useMemo
ChartCardData(rs) ==
  LET ks == FirstRowKeys(rs)
      xKey == KeyOr(pickKey(ks, ModuleCandidates), "Module")
      k == ResolveGradeKeys(rs)
  IN [i \in 1..Len(rs) |->
        GradePoint(Label(rs[i], xKey),
          IF k.lineAKey.found THEN toNumber(Get(rs[i], k.lineAKey.key))
          ELSE Null,
          IF k.lineBKey.found THEN toNumber(Get(rs[i], k.lineBKey.key))
          ELSE Null)]

\* the series of ChartCard.tsx GradebookComboChart, gated by hasA and hasB
ChartCardSeries(d) ==
  LET hasA == \E i \in 1..Len(d) : d[i].turnedIn # Null
      hasB == \E i \in 1..Len(d) : d[i].excl0 # Null
  IN (IF hasA THEN {"lineA"} ELSE {})
       \cup (IF hasB THEN {"lineB"} ELSE {})
       \cup (IF ~hasA \/ ~hasB THEN {"note"} ELSE {})

\* marks a column the row does not have
Absent == [t |-> "absent", s |-> <<>>, n |-> 0]

EchoCols ==
  {"Module", "# of Students Viewing", "# of Unique Viewers", "# of Students",
   "Average View %"}

\* "# of Students Viewing": absent, 25, "40", -5, 2.5
ViewingCells ==
  {Absent, Whole(25), Str(<<"4", "0">>), Whole(-5), Num(2500)}
\* "# of Unique Viewers": absent, 12
UniqueCells == {Absent, Whole(12)}
\* "# of Students": absent, 30, "20"
StudentCells == {Absent, Whole(30), Str(<<"2", "0">>)}
\* "Average View %": absent, 0.75
AverageCells == {Absent, Num(750)}

RowOf(viewing, unique, students, average) ==
  LET cells == [c \in EchoCols |->
                  CASE c = "Module" -> Str(<<"W", "1">>)
                    [] c = "# of Students Viewing" -> viewing
                    [] c = "# of Unique Viewers" -> unique
                    [] c = "# of Students" -> students
                    [] c = "Average View %" -> average]
  IN [c \in {k \in EchoCols : cells[k] # Absent} |-> cells[c]]

RowUniverse ==
  {RowOf(v, u, s, a) : v \in ViewingCells, u \in UniqueCells,
                       s \in StudentCells, a \in AverageCells}

RowSets == UNION {[1..k -> RowUniverse] : k \in 0..MaxRows}

\* the hint the page passes: null (an omitted prop, undefined, takes the
\* same branches), 0 or 30
HintValues == {Null, Whole(0), Whole(30)}

EchoInit ==
  /\ moduleRows \in RowSets
  /\ moduleRowsId = 1
  /\ studentsTotal \in HintValues
  /\ variant = "none"
  /\ data = <<>>
  /\ series = {}
  /\ resolved = <<>>
  /\ axis = AutoAxis

\* render of EchoComboChart.tsx, first variant
RenderHintVariant ==
  /\ variant = "none"
  /\ data' = HintData(moduleRows, studentsTotal)
  /\ variant' = "hint"
  /\ series' = HintSeries(studentsTotal)
  /\ resolved' = <<>>
  /\ axis' = HintAxis(HintData(moduleRows, studentsTotal))
  /\ UNCHANGED <<moduleRows, moduleRowsId, studentsTotal>>

\* render of EchoComboChart.tsx, pickKey variant
RenderPickKeyVariant ==
  /\ variant = "none"
  /\ data' = PickKeyData(moduleRows, studentsTotal)
  /\ variant' = "pickKey"
  /\ series' = PickKeySeries(PickKeyData(moduleRows, studentsTotal))
  /\ resolved' = LET k == ResolveKeys(moduleRows, ViewersCandidates)
                 IN <<k.viewersKey, k.overallKey, k.avgKey>>
  /\ axis' = AutoAxis
  /\ UNCHANGED <<moduleRows, moduleRowsId, studentsTotal>>

\* render of part_001 EchoComboChart
RenderPart001 ==
  /\ variant = "none"
  /\ data' = Part001Data(moduleRows, studentsTotal)
  /\ variant' = "part001"
  /\ series' = PickKeySeries(Part001Data(moduleRows, studentsTotal))
  /\ resolved' = LET k == ResolveKeys(moduleRows, Part001ViewersCandidates)
                 IN <<k.viewersKey, k.overallKey, k.avgKey>>
  /\ axis' = AutoAxis
  /\ UNCHANGED <<moduleRows, moduleRowsId, studentsTotal>>

EchoNext ==
  \/ RenderHintVariant /\ UNCHANGED <<cellVars, keyVars, tableVars, widthVars,
                                      pageVars, wizVars>>
  \/ RenderPickKeyVariant /\ UNCHANGED <<cellVars, keyVars, tableVars, widthVars,
                                         pageVars, wizVars>>
  \/ RenderPart001 /\ UNCHANGED <<cellVars, keyVars, tableVars, widthVars,
                                  pageVars, wizVars>>

InitEcho == EchoInit /\ CellIdle /\ KeyIdle /\ TableIdle /\ WidthIdle /\ PageIdle /\ WizIdle

SpecEcho == InitEcho /\ [][EchoNext]_vars

---------------------------------------------------------------------------
(* Table renders *)

\* first render of the page.tsx Table
RenderPageTable ==
  /\ tableVariant = "none"
  /\ tableVariant' = "page"
  /\ cols' = pageCols(rows, columns)
  /\ slice' = Slice(rows, maxRows)
  /\ tableView' = IF Len(Slice(rows, maxRows)) = 0 THEN NoDataView
                  ELSE GridView(pageCols(rows, columns),
                         PageBody(Slice(rows, maxRows),
                                  pageCols(rows, columns), percentCols))
  /\ UNCHANGED <<rows, rowsId, columns, percentCols, maxRows, colWidths,
                 effectPending>>

\* first render of the part_003 Table: its effect is scheduled
RenderTable ==
  /\ tableVariant = "none"
  /\ tableVariant' = "part003"
  /\ cols' = tableCols(rows, columns)
  /\ slice' = Slice(rows, maxRows)
  /\ tableView' = IF Len(Slice(rows, maxRows)) = 0 THEN NoDataView
                  ELSE GridView(tableCols(rows, columns),
                         TableBody(Slice(rows, maxRows),
                                   tableCols(rows, columns), percentCols))
  /\ effectPending' = TRUE
  /\ UNCHANGED <<rows, rowsId, columns, percentCols, maxRows, colWidths>>

\* the colWidths effect of the part_003 Table, and the render its
\* setColWidths causes
ColWidthsEffect ==
  /\ tableVariant = "part003"
  /\ effectPending
  /\ effectPending' = FALSE
  /\ IF Len(slice) = 0 \/ Len(cols) = 0
     THEN colWidths' = EmptyMap
     ELSE \E ctx \in BOOLEAN :
            colWidths' =
              buildColWidths(rows, cols, percentCols, TableOpts(rows), ctx)
  /\ UNCHANGED <<rows, rowsId, columns, percentCols, maxRows, tableVariant,
                 cols, slice, tableView>>

---------------------------------------------------------------------------
(* The results view: one row collection handed to a table and to a chart *)

\* render of GradebookComboChart.tsx: both lines unconditionally
RenderGradebook ==
  /\ variant = "none"
  /\ variant' = "gradebook"
  /\ data' = GradebookData(rows)
  /\ series' = {"lineA", "lineB"}
  /\ resolved' = <<>>
  /\ axis' = AutoAxis
  /\ UNCHANGED <<moduleRows, moduleRowsId, studentsTotal>>

\* render of ChartCard.tsx GradebookComboChart
RenderChartCard ==
  /\ variant = "none"
  /\ variant' = "chartCard"
  /\ data' = ChartCardData(rows)
  /\ series' = ChartCardSeries(ChartCardData(rows))
  /\ resolved' = LET k == ResolveGradeKeys(rows) IN <<k.lineAKey, k.lineBKey>>
  /\ axis' = AutoAxis
  /\ UNCHANGED <<moduleRows, moduleRowsId, studentsTotal>>

ECHO_SUMMARY_COLS ==
  <<"Media Title", "Video Duration", "# of Unique Viewers", "Average View %",
    "% of Students Viewing", "% of Video Viewed Overall">>
ECHO_MODULE_COLS ==
  <<"Module", "Average View %", "# of Students Viewing", "Overall View %",
    "# of Students">>
ECHO_MODULE_PERCENT_COLS == <<"Average View %", "Overall View %">>

\* the module rows of a response: a label W1 or W2, and each metric
\* present or not (25 viewing, 30 students); the two percent metrics (0.75
\* viewed, 0.9 turned in) come together
ViewRows ==
  LET names == {"Module", "# of Students Viewing", "# of Students",
                "Average View %", "Avg % Turned In"}
      Row(label, viewing, students, percents) ==
        LET cells == [c \in names |->
                        CASE c = "Module" -> label
                          [] c = "# of Students Viewing" -> viewing
                          [] c = "# of Students" -> students
                          [] c = "Average View %" ->
                               IF percents THEN Num(750) ELSE Absent
                          [] c = "Avg % Turned In" ->
                               IF percents THEN Num(900) ELSE Absent]
        IN [c \in {k \in names : cells[k] # Absent} |-> cells[c]]
  IN {Row(l, v, n, p) :
        l \in {Str(<<"W", "1">>), Str(<<"W", "2">>)},
        v \in {Absent, Whole(25)}, n \in {Absent, Whole(30)},
        p \in BOOLEAN}

ViewRowSets == UNION {[1..k -> ViewRows] : k \in 0..MaxRows}

ViewInit ==
  /\ moduleRows \in ViewRowSets
  /\ moduleRowsId = 1
  /\ rows = moduleRows
  /\ rowsId = moduleRowsId
  /\ studentsTotal \in {Null, Whole(30)}
  /\ columns \in {NoColumns, Columns(ECHO_MODULE_COLS),
                  Columns(ECHO_SUMMARY_COLS)}
  /\ percentCols = ECHO_MODULE_PERCENT_COLS
  /\ maxRows = 200
  /\ variant = "none"
  /\ data = <<>>
  /\ series = {}
  /\ resolved = <<>>
  /\ axis = AutoAxis
  /\ tableVariant = "none"
  /\ cols = <<>>
  /\ slice = <<>>
  /\ colWidths = EmptyMap
  /\ tableView = NoView
  /\ effectPending = FALSE

ViewNext ==
  \/ RenderHintVariant /\ UNCHANGED <<cellVars, keyVars, tableVars, widthVars,
                                      pageVars, wizVars>>
  \/ RenderPickKeyVariant /\ UNCHANGED <<cellVars, keyVars, tableVars, widthVars,
                                         pageVars, wizVars>>
  \/ RenderPart001 /\ UNCHANGED <<cellVars, keyVars, tableVars, widthVars,
                                  pageVars, wizVars>>
  \/ RenderGradebook /\ UNCHANGED <<cellVars, keyVars, tableVars, widthVars,
                                    pageVars, wizVars>>
  \/ RenderChartCard /\ UNCHANGED <<cellVars, keyVars, tableVars, widthVars,
                                    pageVars, wizVars>>
  \/ RenderPageTable /\ UNCHANGED <<cellVars, keyVars, echoVars, widthVars,
                                    pageVars, wizVars>>
  \/ RenderTable /\ UNCHANGED <<cellVars, keyVars, echoVars, widthVars,
                                pageVars, wizVars>>
  \/ ColWidthsEffect /\ UNCHANGED <<cellVars, keyVars, echoVars, widthVars,
                                    pageVars, wizVars>>

InitView == ViewInit /\ CellIdle /\ KeyIdle /\ WidthIdle /\ PageIdle /\ WizIdle

SpecView == InitView /\ [][ViewNext]_vars

---------------------------------------------------------------------------
(* buildColWidths under every choice of options *)

\* a text of len characters
Filler(len) == [i \in 1..len |-> "x"]

\* the columns measured: a plain one, a text-heavy one, a numeric-ish one,
\* and one that is both
WidthCols == <<"Module", "Media Title", "Total Views", "Avg Page Views">>

\* rows whose cells all hold a text of 0, 12, 30 or 80 characters
WidthRowSets ==
  LET Row(len) == [c \in Range(WidthCols) |-> Str(Filler(len))]
  IN UNION {[1..k -> {Row(len) : len \in {0, 12, 30, 80}}] : k \in 0..MaxRows}

\* the options a caller may pass, the defaults among them
OptionSets ==
  [sample : {1, 80}, paddingPx : {22}, minPx : {70, 200},
   maxTextPx : {520}, maxDefaultPx : {150, 320}]

WidthInit ==
  /\ rows \in WidthRowSets
  /\ rowsId = 1
  /\ cols = WidthCols
  /\ percentCols = <<>>
  /\ opts \in OptionSets
  /\ built = FALSE
  /\ colWidths = EmptyMap
  /\ columns = NoColumns
  /\ maxRows = 0
  /\ tableVariant = "none"
  /\ slice = <<>>
  /\ tableView = NoView
  /\ effectPending = FALSE

\* buildColWidths(rows, cols, percentCols, opts)
BuildColWidths ==
  /\ ~built
  /\ built' = TRUE
  /\ \E ctx \in BOOLEAN :
       colWidths' = buildColWidths(rows, cols, percentCols, opts, ctx)
  /\ UNCHANGED <<rows, rowsId, cols, percentCols, opts, columns, maxRows,
                 tableVariant, slice, tableView, effectPending>>

\* buildColWidths called again, with the same options, on other rows
BuildAgain ==
  /\ built
  /\ colWidths # EmptyMap
  /\ \E rs \in WidthRowSets :
       /\ rows' = rs
       /\ colWidths' = buildColWidths(rs, cols, percentCols, opts, TRUE)
  /\ UNCHANGED <<rowsId, cols, percentCols, opts, built, columns, maxRows,
                 tableVariant, slice, tableView, effectPending>>

WidthNext ==
  \/ BuildColWidths /\ UNCHANGED <<cellVars, keyVars, echoVars,
                                   pageVars, wizVars>>
  \/ BuildAgain /\ UNCHANGED <<cellVars, keyVars, echoVars, pageVars, wizVars>>

InitWidth == WidthInit /\ CellIdle /\ KeyIdle /\ EchoIdle /\ PageIdle /\ WizIdle

SpecWidth == InitWidth /\ [][WidthNext]_vars

---------------------------------------------------------------------------
(* Memoisation: the part_003 Table and the Echo chart across renders *)

\* list.join("|") as its segments between the separators: two joins are
\* the same string exactly when their segments are the same; the one name
\* of the model that holds the separator splits in two
Joined(list) ==
  LET Parts(c) == IF c = "Module|Week" THEN <<"Module", "Week">> ELSE <<c>>
      F[i \in 0..Len(list)] ==
        IF i = 0 THEN <<>> ELSE F[i - 1] \o Parts(list[i])
  IN F[Len(list)]

\* the dependency array of the colWidths effect
EffectDeps(id, cs, pcols, limit) == <<id, Joined(cs), Joined(pcols), limit>>

\* the row collections a table is handed in turn: a gradebook-like sheet
\* with a combined column, short or long module names
MemoRowSets ==
  LET Row(name) == [c \in {"Module", "Week", "Module|Week", "Score"} |->
                      CASE c = "Module" -> Str(name)
                        [] c = "Week" -> Whole(1)
                        [] c = "Module|Week" -> Str(name \o <<"|", "1">>)
                        [] c = "Score" -> Num(900)]
      a == Row(<<"W", "1">>)
      b == Row(Filler(12))
  IN {<<>>, <<a>>, <<b>>, <<a, b>>}

MemoColumns ==
  {NoColumns, Columns(<<"Module", "Week", "Score">>),
   Columns(<<"Module|Week", "Score">>)}

MemoPercentCols == {<<>>, <<"Score">>}

MemoLimits == {0, 200}

\* the module rows a chart is handed in turn
MemoModuleRows ==
  LET Row(label, viewing) ==
        [c \in {"Module", "# of Students Viewing"} |->
           IF c = "Module" THEN Str(label) ELSE Whole(viewing)]
  IN {<<>>, <<Row(<<"W", "1">>, 25)>>, <<Row(<<"W", "2">>, 12)>>}

MemoInit ==
  /\ rows \in MemoRowSets
  /\ rowsId = 1
  /\ columns \in MemoColumns
  /\ percentCols \in MemoPercentCols
  /\ maxRows \in MemoLimits
  /\ tableVariant = "none"
  /\ cols = <<>>
  /\ slice = <<>>
  /\ colWidths = EmptyMap
  /\ tableView = NoView
  /\ effectPending = FALSE
  /\ moduleRows \in MemoModuleRows
  /\ moduleRowsId = 1
  /\ studentsTotal \in {Null, Whole(30)}
  /\ variant = "none"
  /\ data = <<>>
  /\ series = {}
  /\ resolved = <<>>
  /\ axis = AutoAxis

\* the parent renders the part_003 Table again, with the same rows array or
\* a new one and any columns, percentCols and maxRows: cols and slice are
\* taken from their memo when its dependencies are unchanged (an unchanged
\* columns array has unchanged content), the effect is scheduled when its
\* dependency array changed, and the table is drawn with the widths at hand
RerenderTable ==
  /\ tableVariant = "part003"
  /\ ~effectPending
  /\ \E rs \in MemoRowSets, cs \in MemoColumns, pcols \in MemoPercentCols,
        limit \in MemoLimits, sameArray \in BOOLEAN :
       LET id == IF sameArray THEN rowsId ELSE 3 - rowsId
           newCols == IF id = rowsId /\ cs = columns THEN cols
                      ELSE tableCols(rs, cs)
           newSlice == IF id = rowsId /\ limit = maxRows THEN slice
                       ELSE Slice(rs, limit)
       IN /\ sameArray => rs = rows
          /\ rows' = rs
          /\ rowsId' = id
          /\ columns' = cs
          /\ percentCols' = pcols
          /\ maxRows' = limit
          /\ cols' = newCols
          /\ slice' = newSlice
          /\ effectPending' =
               (EffectDeps(id, newCols, pcols, limit)
                  # EffectDeps(rowsId, cols, percentCols, maxRows))
          /\ tableView' = IF Len(newSlice) = 0 THEN NoDataView
                          ELSE GridView(newCols,
                                        TableBody(newSlice, newCols, pcols))
  /\ UNCHANGED <<tableVariant, colWidths>>

\* the parent renders EchoComboChart (first variant) again: data is taken
\* from the memo when moduleRows and studentsTotal are unchanged
RerenderEcho ==
  /\ variant = "hint"
  /\ \E rs \in MemoModuleRows, hint \in {Null, Whole(30)},
        sameArray \in BOOLEAN :
       LET id == IF sameArray THEN moduleRowsId ELSE 3 - moduleRowsId
       IN /\ sameArray => rs = moduleRows
          /\ moduleRows' = rs
          /\ moduleRowsId' = id
          /\ studentsTotal' = hint
          /\ data' = IF id = moduleRowsId /\ hint = studentsTotal THEN data
                     ELSE HintData(rs, hint)
          /\ series' = HintSeries(hint)
          /\ axis' = HintAxis(IF id = moduleRowsId /\ hint = studentsTotal
                              THEN data ELSE HintData(rs, hint))
  /\ UNCHANGED <<variant, resolved>>

MemoNext ==
  \/ RenderTable /\ UNCHANGED <<cellVars, keyVars, echoVars, widthVars,
                                pageVars, wizVars>>
  \/ ColWidthsEffect /\ UNCHANGED <<cellVars, keyVars, echoVars, widthVars,
                                    pageVars, wizVars>>
  \/ RerenderTable /\ UNCHANGED <<cellVars, keyVars, echoVars, widthVars,
                                  pageVars, wizVars>>
  \/ RenderHintVariant /\ UNCHANGED <<cellVars, keyVars, tableVars, widthVars,
                                      pageVars, wizVars>>
  \/ RerenderEcho /\ UNCHANGED <<cellVars, keyVars, tableVars, widthVars,
                                 pageVars, wizVars>>

InitMemo == MemoInit /\ CellIdle /\ KeyIdle /\ WidthIdle /\ PageIdle /\ WizIdle

SpecMemo == InitMemo /\ [][MemoNext]_vars

---------------------------------------------------------------------------
(* The total-students hint: computed by the page, handed to the chart *)

StudentsTotalCandidates ==
  <<"# Students", "# of Students", "Students Total", "Total Students",
    "students_total">>

\* page.tsx studentsTotal: the first candidate column of the first summary
\* row that is defined and parses to a number above 0, rounded; otherwise
\* the number of student rows when there are any; otherwise null
studentsTotalOf(summary, students) ==
  LET row == summary[1]
      Usable(k) == /\ Get(row, k) # Undefined
                   /\ toNumber(Get(row, k)) # Null
                   /\ toNumber(Get(row, k)).n > 0
      hits == SelectSeq(StudentsTotalCandidates, Usable)
  IN IF Len(summary) > 0 /\ Len(hits) > 0
     THEN Num(Round(toNumber(Get(row, hits[1])).n))
     ELSE IF Len(students) > 0 THEN Whole(Len(students))
     ELSE Null

\* result.echo.summary, empty or one row: each candidate column absent or
\* holding a count, a text, a fraction or a negative number
SummarySets ==
  LET names == {"# Students", "# of Students", "Total Students"}
      Row(a, b, c) ==
        LET cells == [k \in names |->
                        CASE k = "# Students" -> a
                          [] k = "# of Students" -> b
                          [] k = "Total Students" -> c]
        IN [k \in {x \in names : cells[x] # Absent} |-> cells[k]]
  IN {<<>>}
       \cup {<<Row(a, b, c)>> :
               a \in {Absent, Whole(150), Str(<<"0">>), Num(400), Null},
               b \in {Absent, Whole(30), Whole(-3), Str(<<"a">>)},
               c \in {Absent, Num(29500)}}

\* result.echo.students: one row per student
StudentSets ==
  LET student == [Student |-> Str(<<"a">>)]
  IN {<<>>, <<student>>, <<student, student>>}

\* the module rows charted with the hint: viewers and students absent, small,
\* large or negative
HintRowSets ==
  LET names == {"Module", "# of Students Viewing", "# of Students"}
      Row(viewing, students) ==
        LET cells == [k \in names |->
                        CASE k = "Module" -> Str(<<"W", "1">>)
                          [] k = "# of Students Viewing" -> viewing
                          [] k = "# of Students" -> students]
        IN [k \in {x \in names : cells[x] # Absent} |-> cells[k]]
      universe == {Row(v, n) : v \in {Absent, Whole(25), Whole(100)},
                               n \in {Absent, Whole(120)}}
                    \cup {Row(Whole(-5), Whole(30))}
  IN UNION {[1..k -> universe] : k \in 0..MaxRows}

HintInit ==
  /\ echoSummary \in SummarySets
  /\ echoStudents \in StudentSets
  /\ pageStage = "loaded"
  /\ moduleRows \in HintRowSets
  /\ moduleRowsId = 1
  /\ studentsTotal = Null
  /\ variant = "none"
  /\ data = <<>>
  /\ series = {}
  /\ resolved = <<>>
  /\ axis = AutoAxis

\* the studentsTotal useMemo of page.tsx
ComputeStudentsTotal ==
  /\ pageStage = "loaded"
  /\ pageStage' = "computed"
  /\ studentsTotal' = studentsTotalOf(echoSummary, echoStudents)
  /\ UNCHANGED <<echoSummary, echoStudents, moduleRows, moduleRowsId, variant,
                 data, series, resolved, axis>>

\* page.tsx hands echoModules and studentsTotal to EchoComboChart
RenderEchoChart ==
  /\ pageStage = "computed"
  /\ RenderHintVariant
  /\ UNCHANGED pageVars

HintNext ==
  \/ ComputeStudentsTotal
       /\ UNCHANGED <<cellVars, keyVars, tableVars, widthVars, wizVars>>
  \/ RenderEchoChart
       /\ UNCHANGED <<cellVars, keyVars, tableVars, widthVars, wizVars>>

InitHint == HintInit /\ CellIdle /\ KeyIdle /\ TableIdle /\ WidthIdle /\ WizIdle

SpecHint == InitHint /\ [][HintNext]_vars

---------------------------------------------------------------------------
(* The module-level Echo overview bar chart of part_002 *)

\* the order in which the response lists the columns of a module row:
\* Object.keys gives the keys a row has in this order
OverviewKeyOrder == <<"Module", "Total Views", "Average View %">>

\* part_002 moduleChartData, the map callback: the label, the first key
\* whose value has number type and that value (0 without such a key)
OverviewPoint(r, idx) ==
  LET named == SelectSeq(ModuleCandidates,
                         LAMBDA k : Get(r, k) \notin {Null, Undefined})
      moduleName == IF Len(named) > 0 THEN r[named[1]]
                    ELSE Str(<<"M", "o", "d", "u", "l", "e", " ">>
                               \o IntDigits(idx))
      numericKeys == SelectSeq(OverviewKeyOrder,
                               LAMBDA k : k \in DOMAIN r /\ TypeofNumber(r[k]))
  IN [module |-> JsString(moduleName),
      value |-> IF Len(numericKeys) > 0 THEN r[numericKeys[1]] ELSE Num(0),
      metricKey |-> IF Len(numericKeys) > 0 THEN SomeKey(numericKeys[1])
                    ELSE NoKey]

\* part_002 moduleChartData
moduleChartData(echoModules) ==
  [i \in 1..Len(echoModules) |-> OverviewPoint(echoModules[i], i)]

\* the module rows of a response: each column absent, a number, null or a
\* text
OverviewRowSets ==
  LET Row(name, views, average) ==
        LET cells == [k \in Range(OverviewKeyOrder) |->
                        CASE k = "Module" -> name
                          [] k = "Total Views" -> views
                          [] k = "Average View %" -> average]
        IN [k \in {x \in Range(OverviewKeyOrder) : cells[x] # Absent} |->
              cells[k]]
      universe == {Row(name, views, average) :
                     name \in {Absent, Str(<<"W", "1">>)},
                     views \in {Absent, Whole(10), Null, Str(<<"1", "0">>)},
                     average \in {Absent, Num(500)}}
  IN UNION {[1..k -> universe] : k \in 0..MaxRows}

OverviewInit ==
  /\ moduleRows \in OverviewRowSets
  /\ moduleRowsId = 1
  /\ studentsTotal = Null
  /\ variant = "none"
  /\ data = <<>>
  /\ series = {}
  /\ resolved = <<>>
  /\ axis = AutoAxis

\* render of the "echo" tab of part_002: the bar chart when there is a
\* point, the note otherwise
RenderOverview ==
  /\ variant = "none"
  /\ variant' = "overview"
  /\ data' = moduleChartData(moduleRows)
  /\ series' = IF Len(moduleChartData(moduleRows)) > 0 THEN {"bar"}
               ELSE {"note"}
  /\ resolved' = <<>>
  /\ axis' = AutoAxis
  /\ UNCHANGED <<moduleRows, moduleRowsId, studentsTotal>>

OverviewNext ==
  RenderOverview
    /\ UNCHANGED <<cellVars, keyVars, tableVars, widthVars, pageVars, wizVars>>

InitOverview ==
  OverviewInit /\ CellIdle /\ KeyIdle /\ TableIdle /\ WidthIdle /\ PageIdle
    /\ WizIdle

SpecOverview == InitOverview /\ [][OverviewNext]_vars

---------------------------------------------------------------------------
(* The wizard: course, upload, run analysis, results *)

\* the requests still awaiting their response or its body
InFlight == {i \in 1..Len(request) : request[i] \notin {"failed", "done"}}

BackShownAtResults(s) == s >= 2

\* the Back button is part of step 2 only
BackShown(s) == s = 2

\* the tabs of step 3 and the one selected first
Tabs(c) ==
  IF c = "part002" THEN {"overview", "echo", "grades", "exports"}
  ELSE {"tables", "charts", "exports", "ai"}

FirstTab(c) == IF c = "part002" THEN "overview" ELSE "tables"

RunEnabledWhileLoading(c) == c = "part002" => (canvasCsv /\ echoCsv)

\* the run button of step 2: disabled={loading} in page.tsx and part_003,
\* disabled={!canContinueStep2 || loading} in part_002
RunEnabled(c) ==
  /\ ~loading
  /\ c = "part002" => (canvasCsv /\ echoCsv)

\* where the error state is rendered: the banner above every step in
\* page.tsx and part_003 ({error ? ...}), the AI summary card on the
\* overview tab of step 3 in part_002
ErrorVisible ==
  /\ error.set
  /\ error.text # ""
  /\ component = "part002" => (step = 3 /\ activeTab = "overview")

WizardInit ==
  /\ component \in {"page", "part003", "part002"}
  /\ step = 1
  /\ loading = FALSE
  /\ error = NoError
  /\ result = "null"
  /\ apiBase \in BOOLEAN
  /\ courseCode = <<>>
  /\ canvasCsv = FALSE
  /\ echoCsv = FALSE
  /\ activeTab = FirstTab(component)
  /\ request = <<>>
  /\ calls = 0

\* onChange of the course input of step 1
TypeCourseCode ==
  /\ step = 1
  /\ courseCode' \in {<<>>, <<" ">>, <<"1">>}
  /\ UNCHANGED <<component, step, loading, error, result, apiBase, canvasCsv,
                 echoCsv, request, calls, activeTab>>

\* Continue of step 1 (disabled={!canContinueStep1} in part_002)
Continue ==
  /\ step = 1
  /\ component = "part002" => courseCode # <<>>
  /\ step' = 2
  /\ UNCHANGED <<component, loading, error, result, apiBase, courseCode,
                 canvasCsv, echoCsv, request, calls, activeTab>>

\* onChange of the two file inputs of step 2
SelectCanvasCsv ==
  /\ step = 2
  /\ canvasCsv' \in BOOLEAN
  /\ UNCHANGED <<component, step, loading, error, result, apiBase, courseCode,
                 echoCsv, request, calls, activeTab>>

SelectEchoCsv ==
  /\ step = 2
  /\ echoCsv' \in BOOLEAN
  /\ UNCHANGED <<component, step, loading, error, result, apiBase, courseCode,
                 canvasCsv, request, calls, activeTab>>

\* Back of step 2
Back ==
  /\ BackShown(step)
  /\ step' = 1
  /\ UNCHANGED <<component, loading, error, result, apiBase, courseCode,
                 canvasCsv, echoCsv, request, calls, activeTab>>

\* a tab button of step 3
SelectTab ==
  /\ step = 3
  /\ activeTab' \in Tabs(component)
  /\ UNCHANGED <<component, step, loading, error, result, apiBase, courseCode,
                 canvasCsv, echoCsv, request, calls>>

\* runAnalysis of page.tsx and part_003, up to its first await
RunAnalysis ==
  /\ component \in {"page", "part003"}
  /\ step = 2
  /\ RunEnabled(component)
  /\ calls < MaxCalls
  /\ calls' = calls + 1
  /\ IF ~apiBase
     THEN /\ error' = Message("Missing NEXT_PUBLIC_API_BASE_URL")
          /\ UNCHANGED <<loading, request>>
     ELSE IF Trim(courseCode) = <<>>
     THEN /\ error' = Message("Please enter a course code.")
          /\ UNCHANGED <<loading, request>>
     ELSE IF ~canvasCsv \/ ~echoCsv
     THEN /\ error' = Message("Please upload both CSV files.")
          /\ UNCHANGED <<loading, request>>
     ELSE /\ error' = NoError
          /\ loading' = TRUE
          /\ request' = Append(request, "fetching")
  /\ UNCHANGED <<component, step, result, apiBase, courseCode, canvasCsv,
                 echoCsv, activeTab>>

\* handleRunAnalysis of part_002, up to its first await
HandleRunAnalysis ==
  /\ component = "part002"
  /\ step = 2
  /\ RunEnabled(component)
  /\ calls < MaxCalls
  /\ calls' = calls + 1
  /\ IF ~canvasCsv \/ ~echoCsv \/ courseCode = <<>>
     THEN UNCHANGED <<loading, error, result, activeTab, request>>
     ELSE /\ loading' = TRUE
          /\ error' = NoError
          /\ result' = "null"
          /\ activeTab' = "overview"
          /\ request' = Append(request, "fetching")
  /\ UNCHANGED <<component, step, apiBase, courseCode, canvasCsv, echoCsv>>

ThrowKeepsLoading(i, text) ==
  /\ request' = [request EXCEPT ![i] = "failed"]
  /\ error' = Message(text)
  /\ UNCHANGED <<component, step, loading, result, apiBase, courseCode,
                 canvasCsv, echoCsv, calls, activeTab>>

\* the catch and finally blocks: the message is stored and loading reset
Throw(i, text) ==
  /\ request' = [request EXCEPT ![i] = "failed"]
  /\ error' = Message(text)
  /\ loading' = FALSE
  /\ UNCHANGED <<component, step, result, apiBase, courseCode, canvasCsv,
                 echoCsv, calls, activeTab>>

\* the success path and the finally block: the parsed body is stored
\* (setResult, or the tables and analysisError of part_002) and step 3 shown
Store(i, body, analysisError) ==
  /\ request' = [request EXCEPT ![i] = "done"]
  /\ result' = IF body = "object" THEN "response" ELSE "null"
  /\ step' = 3
  /\ loading' = FALSE
  /\ error' = IF component = "part002"
              THEN IF analysisError THEN Message("analysis") ELSE NoError
              ELSE error
  /\ activeTab' = FirstTab(component)
  /\ UNCHANGED <<component, apiBase, courseCode, canvasCsv, echoCsv, calls>>

\* fetch resolves with a response, OK or not
FetchResolves ==
  \E i \in InFlight, ok \in BOOLEAN :
    /\ request[i] = "fetching"
    /\ request' = [request EXCEPT
                     ![i] = IF ok THEN "readingJson" ELSE "readingText"]
    /\ UNCHANGED <<component, step, loading, error, result, apiBase,
                   courseCode, canvasCsv, echoCsv, calls, activeTab>>

\* fetch rejects (network error)
FetchRejects ==
  \E i \in InFlight :
    /\ request[i] = "fetching"
    /\ Throw(i, "Failed to fetch")

\* res.text() of a response that is not OK settles and the handler throws
TextRead ==
  \E i \in InFlight :
    /\ request[i] = "readingText"
    /\ Throw(i, "Backend error")

\* res.json() rejects
JsonFails ==
  \E i \in InFlight :
    /\ request[i] = "readingJson"
    /\ Throw(i, "Unexpected token")

\* res.json() resolves with the parsed body, an object or the JSON null;
\* part_002 reads data.kpis first, which throws on null
JsonParsed ==
  \E i \in InFlight, body \in {"object", "null"}, analysisError \in BOOLEAN :
    /\ request[i] = "readingJson"
    /\ analysisError => (component = "part002" /\ body = "object")
    /\ IF component = "part002" /\ body = "null"
       THEN Throw(i, "Cannot read properties of null")
       ELSE Store(i, body, analysisError)

\* the steps by which a pending request settles
Respond ==
  /\ FetchResolves \/ FetchRejects \/ TextRead \/ JsonFails \/ JsonParsed
  /\ UNCHANGED <<cellVars, keyVars, echoVars, tableVars, widthVars, pageVars>>

WizardNext ==
  \/ TypeCourseCode
       /\ UNCHANGED <<cellVars, keyVars, echoVars, tableVars, widthVars,
                      pageVars>>
  \/ Continue
       /\ UNCHANGED <<cellVars, keyVars, echoVars, tableVars, widthVars,
                      pageVars>>
  \/ SelectCanvasCsv
       /\ UNCHANGED <<cellVars, keyVars, echoVars, tableVars, widthVars,
                      pageVars>>
  \/ SelectEchoCsv
       /\ UNCHANGED <<cellVars, keyVars, echoVars, tableVars, widthVars,
                      pageVars>>
  \/ Back
       /\ UNCHANGED <<cellVars, keyVars, echoVars, tableVars, widthVars,
                      pageVars>>
  \/ SelectTab
       /\ UNCHANGED <<cellVars, keyVars, echoVars, tableVars, widthVars,
                      pageVars>>
  \/ RunAnalysis
       /\ UNCHANGED <<cellVars, keyVars, echoVars, tableVars, widthVars,
                      pageVars>>
  \/ HandleRunAnalysis
       /\ UNCHANGED <<cellVars, keyVars, echoVars, tableVars, widthVars,
                      pageVars>>
  \/ FetchResolves
       /\ UNCHANGED <<cellVars, keyVars, echoVars, tableVars, widthVars,
                      pageVars>>
  \/ FetchRejects
       /\ UNCHANGED <<cellVars, keyVars, echoVars, tableVars, widthVars,
                      pageVars>>
  \/ TextRead
       /\ UNCHANGED <<cellVars, keyVars, echoVars, tableVars, widthVars,
                      pageVars>>
  \/ JsonFails
       /\ UNCHANGED <<cellVars, keyVars, echoVars, tableVars, widthVars,
                      pageVars>>
  \/ JsonParsed
       /\ UNCHANGED <<cellVars, keyVars, echoVars, tableVars, widthVars,
                      pageVars>>

InitWizard ==
  WizardInit /\ CellIdle /\ KeyIdle /\ EchoIdle /\ TableIdle /\ WidthIdle
    /\ PageIdle

SpecWizard == InitWizard /\ [][WizardNext]_vars

\* every request sent is answered: fetch settles, and so does the reading
\* of the body
SpecWizardFair == SpecWizard /\ WF_vars(Respond)

---------------------------------------------------------------------------
(* Properties of the cell helpers, under SpecCoerce *)

\* toNumber of the raw cell, the value every normalizer starts from
Coerced == toNumber(cellValue)

InPercentRange(v) == v.t = "num" /\ 0 <= v.n /\ v.n <= 100 * Scale

\* C5 as stated: one rule everywhere, a coerced value <= 1.5 is multiplied
\* by 100 and a value > 1.5 passes through unchanged.
C5_OneRuleAsStated ==
  (cellStage \in PercentStages /\ Coerced # Null)
    => cellOut = IF 2 * Coerced.n <= 3 * Scale
                 THEN Num(Coerced.n * 100) ELSE Coerced

\* C5 amended: the helpers follow different rules. formatPercentCell of
\* page.tsx multiplies a coerced value <= 1 by 100 and passes a value > 1
\* through; formatPercentCell of part_003 and toPct0to100 multiply every
\* coerced value by 100; an unparsable value gives null in all of them.
C5_PerHelperRule ==
  /\ cellStage = "pagePct"
       => cellOut = IF Coerced = Null THEN Null
                    ELSE IF Coerced.n <= Scale THEN Num(Coerced.n * 100)
                    ELSE Coerced
  /\ cellStage \in {"tablePct", "chartPct"}
       => cellOut = IF Coerced = Null THEN Null ELSE Num(Coerced.n * 100)

\* 1.5 through page.tsx formatPercentCell stays 1.5
C5_Witness ==
  cellStage = "pagePct" /\ cellValue = Num(1500) /\ cellOut = Num(1500)

\* C6 as stated, for source values on either scale: a source value in
\* 0..100 (proportion or percent) is normalized into 0..100 by every helper.
C6_AlwaysInRangeAsStated ==
  (cellStage \in PercentStages /\ Coerced # Null /\ InPercentRange(Coerced))
    => InPercentRange(cellOut)

\* C6 amended: a source value on the proportion scale 0..1 is normalized
\* into 0..100 by every helper, and page.tsx formatPercentCell also keeps a
\* source value in 0..100 within 0..100.
C6_InRangeForProportions ==
  /\ (cellStage \in PercentStages /\ Coerced # Null
        /\ 0 <= Coerced.n /\ Coerced.n <= Scale)
       => InPercentRange(cellOut)
  /\ (cellStage = "pagePct" /\ Coerced # Null /\ InPercentRange(Coerced))
       => InPercentRange(cellOut)

\* the string "0.42" plotted through toPct0to100 is 42
C6_Witness ==
  /\ cellStage = "chartPct"
  /\ cellValue = Str(<<"0", ".", "4", "2">>)
  /\ cellOut = Whole(42)

\* C7 as stated: for x > 1.5 the normalizer of formatPercentCell (page.tsx
\* and part_003) returns x, and returns x again when applied to its result.
C7_IdempotentAsStated ==
  (cellStage \in {"pagePct2", "tablePct2"} /\ 2 * Coerced.n > 3 * Scale)
    => cellFirst = Coerced /\ cellOut = Coerced

\* C7 amended: for x > 1.5 the normalizer of page.tsx formatPercentCell
\* returns x both times; the normalizer of part_003 formatPercentCell
\* multiplies by 100 at each application, so two applications give 10000 x.
C7_IdempotentInPageOnly ==
  /\ (cellStage = "pagePct2" /\ 2 * Coerced.n > 3 * Scale)
       => cellFirst = Coerced /\ cellOut = Coerced
  /\ cellStage = "tablePct2"
       => /\ cellFirst = Num(Coerced.n * 100)
          /\ cellOut = Num(Coerced.n * 100 * 100)

\* 42 normalized twice by page.tsx formatPercentCell is still 42
C7_Witness ==
  /\ cellStage = "pagePct2"
  /\ cellValue = Whole(42)
  /\ cellFirst = Whole(42)
  /\ cellOut = Whole(42)

\* the text toNumber parses: trimmed, every '%' and ',' removed
CleanedText(v) == RemoveAll(RemoveAll(Trim(v.s), "%"), ",")

\* C9: toNumber gives null for null, undefined and ""; returns a finite
\* number unchanged; otherwise parses the trimmed text with '%' and ','
\* removed and gives null when that is not a finite number: "12.5%" is 12.5,
\* "1,234" is 1234, "abc" is null, NaN and the infinities are null, a text
\* of digits is their decimal value and a text holding a letter is null.
C9_ToNumberRules ==
  cellStage = "toNumber" =>
    /\ cellValue \in {Null, Undefined, Str(<<>>)} => cellOut = Null
    /\ cellValue.t = "num" => cellOut = cellValue
    /\ cellValue.t \in {"nan", "inf"} => cellOut = Null
    /\ cellValue = Str(<<"1", "2", ".", "5", "%">>) => cellOut = Num(12500)
    /\ cellValue = Str(<<"1", ",", "2", "3", "4">>) => cellOut = Whole(1234)
    /\ cellValue = Str(<<"a", "b", "c">>) => cellOut = Null
    /\ (cellValue.t = "str" /\ CleanedText(cellValue) # <<>>
          /\ \A i \in 1..Len(CleanedText(cellValue)) :
               CleanedText(cellValue)[i] \in Digits)
         => cellOut = Whole(DigitsValue(CleanedText(cellValue)))
    /\ (cellValue.t = "str"
          /\ \E i \in 1..Len(cellValue.s) : cellValue.s[i] \in {"a", "b", "N"})
         => cellOut = Null

\* "12.5%" coerced to 12.5
C9_Witness ==
  /\ cellStage = "toNumber"
  /\ cellValue = Str(<<"1", "2", ".", "5", "%">>)
  /\ cellOut = Num(12500)

\* C10: whatever the input (null, undefined, a string, a number, NaN, an
\* infinity), toNumber returns null or a finite number.
C10_ToNumberTotal ==
  cellStage = "toNumber" => (cellOut = Null \/ cellOut.t = "num")

\* +Infinity coerced to null
C10_Witness ==
  cellStage = "toNumber" /\ cellValue = PosInfinity /\ cellOut = Null

\* C28 as stated: toNumber gives a number only for a text holding at least
\* one digit; a text left empty once trimmed and stripped of '%' and ','
\* ("%", "," or " % ") gives null, not 0.
C28_NoDigitNoNumberAsStated ==
  (cellStage = "toNumber" /\ cellValue.t = "str"
     /\ \A i \in 1..Len(cellValue.s) : cellValue.s[i] \notin Digits)
    => cellOut = Null

\* the cell was formatted by formatCell, of page.tsx or of part_003
Formatted == cellStage \in {"pageFormat", "tableFormat"}

\* the percent the formatCell variant at hand normalizes the cell to
NormalizedPct ==
  IF cellStage = "pageFormat" THEN pagePct(cellValue) ELSE tablePct(cellValue)

\* C15: in a percent column formatCell renders null, undefined and every
\* unparsable value as "", and every parseable value as an optional minus
\* sign, digits, a point, exactly one digit and '%', the number shown being
\* the normalized percent rounded to one decimal.
C15_PercentColumnText ==
  (Formatted /\ Includes(cellPercentCols, cellKey)) =>
    IF Coerced = Null THEN cellOut = Str(<<>>)
    ELSE LET t == cellOut.s
             body == SubSeq(t, 1, Len(t) - 1)
             digits == IF body # <<>> /\ Head(body) = "-" THEN Tail(body)
                       ELSE body
         IN /\ cellOut.t = "str"
            /\ Len(t) >= 4
            /\ t[Len(t)] = "%"
            /\ IsDecimalBody(digits)
            /\ digits[Len(digits) - 1] = "."
            /\ digits[1] # "."
            /\ Abs(DecimalBodyValue(digits) - Abs(NormalizedPct.n)) <= 50
            /\ (Head(body) = "-") <=> (NormalizedPct.n < 0)

\* 1.56 in a percent column of page.tsx is rendered "1.6%"
C15_Witness ==
  /\ cellStage = "pageFormat"
  /\ cellKey = "Avg % Turned In"
  /\ cellPercentCols = <<"Avg % Turned In">>
  /\ cellValue = Num(1560)
  /\ cellOut = Str(<<"1", ".", "6", "%">>)

\* C16 as stated: in the text column Module, outside the percent columns,
\* formatCell returns every string unchanged and "" for null and undefined.
C16_TextUnchangedAsStated ==
  (Formatted /\ cellKey = "Module" /\ ~Includes(cellPercentCols, cellKey)) =>
    /\ cellValue.t = "str" => cellOut = cellValue
    /\ cellValue \in {Null, Undefined} => cellOut = Str(<<>>)

\* C16 amended: in the text column Module formatCell returns "" for null
\* and undefined and returns a string unchanged unless it is numeric
\* looking, that is made only of digits, commas, dots and minus signs with
\* at most one trailing '%', and parses to a finite number; such a string
\* is rendered again as that number, grouped and with at most two decimals,
\* so "1.0" becomes "1" and "50%" becomes "50".
C16_TextUnchangedUnlessNumeric ==
  (Formatted /\ cellKey = "Module" /\ ~Includes(cellPercentCols, cellKey)) =>
    /\ cellValue \in {Null, Undefined} => cellOut = Str(<<>>)
    /\ cellValue.t = "str" =>
         IF Coerced # Null /\ NumericLooking(cellValue.s)
         THEN /\ cellOut = Str(ToLocaleString(Coerced.n))
              /\ toNumber(cellOut) # Null
              /\ Abs(toNumber(cellOut).n - Coerced.n) <= 5
         ELSE cellOut = cellValue

\* " 42% " in the Module column of part_003 stays " 42% "
C16_Witness ==
  /\ cellStage = "tableFormat"
  /\ cellKey = "Module"
  /\ cellPercentCols = <<>>
  /\ cellValue = Str(<<" ", "4", "2", "%", " ">>)
  /\ cellOut = cellValue

---------------------------------------------------------------------------
(* Properties of column resolution, under SpecResolve *)

\* C8: pickKey returns the first candidate, in candidate-list order, that
\* is a member of keys, and null when no candidate is a member; the result
\* is never a string absent from keys.
C8_PickKeyFirstPresent ==
  picked.done =>
    /\ picked.found =>
         /\ picked.key \in Range(keys)
         /\ \E i \in 1..Len(candidates) :
              /\ candidates[i] = picked.key
              /\ \A j \in 1..(i - 1) : candidates[j] \notin Range(keys)
    /\ ~picked.found =>
         \A i \in 1..Len(candidates) : candidates[i] \notin Range(keys)

\* the first candidate is absent, the second and third are both present
\* and the second is returned
C8_Witness ==
  /\ picked.done /\ picked.found
  /\ Len(candidates) = 3
  /\ candidates[1] \notin Range(keys)
  /\ candidates[2] \in Range(keys)
  /\ candidates[3] \in Range(keys)
  /\ candidates[3] # candidates[2]
  /\ picked.key = candidates[2]

---------------------------------------------------------------------------
(* Properties of the Echo chart projections, under SpecEcho *)

Rendered == variant # "none"

IsNum(v) == v.t = "num"

IsWhole(v) == v.t = "num" /\ v.n % Scale = 0

\* the row has none of the viewer-count and student-count columns
NoCounts(r) ==
  DOMAIN r \cap {"# of Students Viewing", "# of Unique Viewers",
                 "# of Students", "# Students"} = {}

\* C1 as stated: in every point whose three counts are present,
\* viewed + notViewed = total, with or without a hint.
C1_SumIsTotalAsStated ==
  Rendered =>
    \A i \in 1..Len(data) :
      (IsNum(data[i].viewed) /\ IsNum(data[i].notViewed)
         /\ IsNum(data[i].total))
        => data[i].viewed.n + data[i].notViewed.n = data[i].total.n

\* C2 as stated: with a positive hint supplied, every point that has a
\* viewer count has total = hint, viewed within 0..hint and
\* notViewed = hint - viewed.
C2_HintIsTotalAsStated ==
  (Rendered /\ HintPositive(studentsTotal)) =>
    \A i \in 1..Len(data) :
      IsNum(data[i].viewed) =>
        /\ data[i].total = studentsTotal
        /\ 0 <= data[i].viewed.n
        /\ data[i].viewed.n <= studentsTotal.n
        /\ data[i].notViewed = Num(studentsTotal.n - data[i].viewed.n)

\* C3 as stated: viewed and notViewed are non-negative integers and viewed
\* never exceeds total, in every point that has them.
C3_CountsInRangeAsStated ==
  Rendered =>
    \A i \in 1..Len(data) :
      /\ IsNum(data[i].viewed)
           => IsWhole(data[i].viewed) /\ data[i].viewed.n >= 0
      /\ IsNum(data[i].notViewed)
           => IsWhole(data[i].notViewed) /\ data[i].notViewed.n >= 0
      /\ (IsNum(data[i].viewed) /\ IsNum(data[i].total))
           => data[i].viewed.n <= data[i].total.n

\* C4 as stated: without a hint, a row with no viewer count and no per-row
\* student count projects to viewed, notViewed and total all null.
C4_NullWithoutDataAsStated ==
  (Rendered /\ ~TypeofNumber(studentsTotal)) =>
    \A i \in 1..Len(data) :
      NoCounts(moduleRows[i])
        => /\ data[i].viewed = Null
           /\ data[i].notViewed = Null
           /\ data[i].total = Null
---------------------------------------------------------------------------
(* Properties of the results view, under SpecView *)

EchoVariants == {"hint", "pickKey", "part001"}
GradeVariants == {"gradebook", "chartCard"}

\* C11: with an empty row set every component reaches its empty result:
\* each chart projects zero points and every key it resolves is null, each
\* table has no displayed column and no displayed row and shows its no-data
\* message with no header row, and the column-width map is empty, before
\* and after its effect has run.
C11_EmptyRowSet ==
  moduleRows = <<>> =>
    /\ variant # "none" =>
         /\ data = <<>>
         /\ \A i \in 1..Len(resolved) : resolved[i] = NoKey
    /\ variant \in {"pickKey", "part001"} => Len(resolved) = 3
    /\ variant = "chartCard" => Len(resolved) = 2
    /\ tableVariant # "none" =>
         /\ cols = <<>>
         /\ slice = <<>>
         /\ tableView.noData
         /\ tableView.header = <<>>
         /\ tableView.body = <<>>
    /\ colWidths = EmptyMap

\* no rows: the pickKey chart resolved nothing and the part_003 table,
\* its effect done, shows the no-data message
C11_Witness ==
  /\ moduleRows = <<>>
  /\ variant = "pickKey"
  /\ resolved = <<NoKey, NoKey, NoKey>>
  /\ data = <<>>
  /\ tableVariant = "part003"
  /\ ~effectPending
  /\ tableView = NoDataView
  /\ colWidths = EmptyMap

\* C12 as stated: in every Echo chart the stacked bars are mounted exactly
\* when some point has both viewed and notViewed non-null, the note is
\* shown whenever they are not, and never both.
C12_StackIffPairAsStated ==
  variant \in EchoVariants =>
    /\ "bars" \in series
         <=> \E i \in 1..Len(data) :
               data[i].viewed # Null /\ data[i].notViewed # Null
    /\ "bars" \notin series => "note" \in series
    /\ ~("bars" \in series /\ "note" \in series)

\* C13 as stated: in every chart a percent line is mounted exactly when
\* some point has a non-null value for its metric (so none is mounted when
\* no percent column resolves), and the lines do not decide the bars.
C13_LineIffValueAsStated ==
  /\ variant \in EchoVariants =>
       /\ "avgLine" \in series
            <=> \E i \in 1..Len(data) : data[i].avgViewPct # Null
       /\ "overallLine" \in series
            <=> \E i \in 1..Len(data) : data[i].overallViewPct # Null
       /\ (\E i \in 1..Len(data) :
             data[i].viewed # Null /\ data[i].notViewed # Null)
            => "bars" \in series
  /\ variant \in GradeVariants =>
       /\ "lineA" \in series
            <=> \E i \in 1..Len(data) : data[i].turnedIn # Null
       /\ "lineB" \in series
            <=> \E i \in 1..Len(data) : data[i].excl0 # Null

\* the cell of row r under column c, as a set: empty when absent
Cell(r, c) == IF c \in DOMAIN r THEN {r[c]} ELSE {}

\* C14: every chart projects n rows to n points, and point i is row i's:
\* it carries the Module label of row i, its viewer count is row i's (or 0
\* or null where the row or the resolved key has none), and its percent
\* value is row i's (times 100 where the chart scales) or null.
C14_OnePointPerRow ==
  variant # "none" =>
    /\ Len(data) = Len(rows)
    /\ \A i \in 1..Len(rows) :
         /\ data[i].Module = rows[i]["Module"].s
         /\ variant \in EchoVariants =>
              /\ data[i].viewed
                   \in Cell(rows[i], "# of Students Viewing")
                         \cup {Null, Whole(0)}
              /\ data[i].viewed = Whole(0)
                   => "# of Students Viewing" \notin DOMAIN rows[i]
              /\ data[i].avgViewPct
                   \in {Num(v.n * 100) : v \in Cell(rows[i], "Average View %")}
                         \cup Cell(rows[i], "Average View %") \cup {Null}
         /\ variant \in GradeVariants =>
              data[i].turnedIn
                \in {Num(v.n * 100) : v \in Cell(rows[i], "Avg % Turned In")}
                      \cup Cell(rows[i], "Avg % Turned In") \cup {Null}

\* two rows, W2 with percents before W1 without: the ChartCard points are
\* W2 with 0.9 and then W1 with null
C14_Witness ==
  /\ variant = "chartCard"
  /\ Len(rows) = 2
  /\ rows[1]["Module"] = Str(<<"W", "2">>)
  /\ rows[2]["Module"] = Str(<<"W", "1">>)
  /\ Len(data) = 2
  /\ data[1].Module = <<"W", "2">>
  /\ data[1].turnedIn = Num(900)
  /\ data[2].Module = <<"W", "1">>
  /\ data[2].turnedIn = Null

\* C17: with a column list given and at least two of its columns among
\* the keys of the first row, the displayed columns are the listed columns
\* that are keys of the first row, in list order; and in every case each
\* displayed column is a key of the first row.
C17_RequestedPresentInOrder ==
  tableVariant # "none" =>
    /\ (rows # <<>> /\ columns.given
          /\ Len(SelectSeq(columns.list,
                           LAMBDA c : c \in DOMAIN rows[1])) >= 2)
         => cols = SelectSeq(columns.list, LAMBDA c : c \in DOMAIN rows[1])
    /\ \A j \in 1..Len(cols) : rows # <<>> /\ cols[j] \in DOMAIN rows[1]

\* the page.tsx table asked for the five module columns over a first row
\* without a viewer count shows the three it has, in the requested order
C17_Witness ==
  /\ tableVariant = "page"
  /\ columns = Columns(ECHO_MODULE_COLS)
  /\ rows # <<>>
  /\ DOMAIN rows[1] = {"Module", "# of Students", "Average View %",
                       "Avg % Turned In"}
  /\ cols = <<"Module", "Average View %", "# of Students">>

\* C18 as stated: with a column list given, fewer than two of its columns
\* among the keys of the first row and more than one key in that row, every
\* table shows all the keys of the row.
C18_FallbackToAllAsStated ==
  (tableVariant # "none" /\ rows # <<>> /\ columns.given
     /\ Len(SelectSeq(columns.list, LAMBDA c : c \in DOMAIN rows[1])) < 2
     /\ Cardinality(DOMAIN rows[1]) > 1)
    => /\ Range(cols) = DOMAIN rows[1]
       /\ Len(cols) = Cardinality(DOMAIN rows[1])
---------------------------------------------------------------------------
(* Properties of buildColWidths, under SpecWidth *)

---------------------------------------------------------------------------
(* Properties of memoisation, under SpecMemo *)

---------------------------------------------------------------------------
(* Properties of the hint and the count axis, under SpecHint *)

\* the top of a stacked bar: the larger of the viewed segment's end and the
\* end of the not-viewed segment stacked on it
BarTop(p) == Max(p.viewed.n, p.viewed.n + p.notViewed.n)

C29_HintNullOrPositiveAsStated ==
  pageStage = "computed" =>
    \/ studentsTotal = Null
    \/ /\ studentsTotal.t = "num"
       /\ studentsTotal.n > 0
       /\ studentsTotal.n % Scale = 0
---------------------------------------------------------------------------
(* Properties of the overview bar chart, under SpecOverview *)

\* C30 as stated: all bars of the module-level Echo overview chart plot one
\* metric: the metric key chosen for a row is the same for every row of the
\* row set.
C30_OneMetricAsStated ==
  variant = "overview" =>
    \A i, j \in 1..Len(data) : data[i].metricKey = data[j].metricKey
---------------------------------------------------------------------------
(* Properties of the wizard, under SpecWizard and SpecWizardFair *)

\* C22: at most one analysis request is in flight at any time, and the
\* run-analysis handler is never invoked while loading is true, whatever the
\* order of Continue, Back, file selections and Run Analysis clicks around a
\* pending response.
C22_OneRequestInFlight ==
  /\ [](Cardinality(InFlight) <= 1)
  /\ [][calls' # calls => ~loading]_vars

\* a second request pending after a failed one, the user back on step 1
C22_Witness ==
  /\ step = 1
  /\ loading
  /\ Len(request) = 2
  /\ request[1] = "failed"
  /\ Cardinality(InFlight) = 1

\* C23: loading is true exactly while a request is between its start and
\* its completion, and every started request resets it: whether the request
\* ends with a stored response, a status that is not OK, a network error or
\* a parse error, loading becomes false again.
C23_LoadingResets ==
  /\ [](loading <=> InFlight # {})
  /\ loading ~> ~loading

\* one request failed, the next one was stored, loading is false again
C23_Witness ==
  /\ ~loading
  /\ Len(request) = 2
  /\ request[1] = "failed"
  /\ request[2] = "done"

\* C24 as stated: the wizard is at step 3 only if a request completed and
\* its response is stored: step = 3 implies a result that is not null (the
\* tables set from the response in part_002).
C24_ResultAtStepThreeAsStated ==
  step = 3 =>
    /\ \E i \in 1..Len(request) : request[i] = "done"
    /\ result = "response"

\* C25: once at step 3 the wizard stays at step 3: no user action and no
\* late response leaves it, and no further request is sent.
C25_StepThreeIsFinal ==
  [][step = 3 => (step' = 3 /\ request' = request /\ calls' = calls)]_vars

\* step 3 after a stored response, another tab selected
C25_Witness ==
  /\ step = 3
  /\ result = "response"
  /\ activeTab \in {"charts", "echo"}

\* C26 as stated: when the API base URL is missing, the course identifier
\* is blank after trimming or a CSV file is missing, an invocation of the
\* run-analysis handler sends no request, leaves step, loading and the
\* stored result unchanged and leaves a message the user can see.
C26_InvalidRunAsStated ==
  [][(/\ calls' # calls
      /\ \/ ~apiBase
         \/ Trim(courseCode) = <<>>
         \/ ~canvasCsv
         \/ ~echoCsv)
       => /\ request' = request
          /\ step' = step
          /\ loading' = loading
          /\ result' = result
          /\ ErrorVisible']_vars

\* C27 as stated: when a request fails (a status that is not OK or a thrown
\* error) the wizard stays on the step it is on and a message is visible to
\* the user on that step.
C27_FailureVisibleAsStated ==
  [][\A i \in 1..Len(request) :
       (request[i] # "failed" /\ request'[i] = "failed")
         => (step' = step /\ ErrorVisible')]_vars

====
